---- MODULE Spec2Model ----
(***************************************************************************)
(* Edit targeting and context assembly engine: the conversation memory     *)
(* store (src/lib/conversation-memory.ts), its use by the generate route   *)
(* (src/app/api/generate-ai-code-stream/route.ts) and the context selector *)
(* (src/unnamed/part_001).                                                 *)
(*                                                                         *)
(* Conventions.  A JavaScript string is a TLA+ string; `undefined` is "" for*)
(* an optional string, 0 for an optional number and <<>> for an optional   *)
(* array: every use the code makes of these optionals is a truthiness test *)
(* (x || y, x?.length, if (x)), for which the two coincide.  `null` in a   *)
(* place that otherwise holds a record is the record Null.                 *)
(***************************************************************************)
EXTENDS Integers, Sequences, FiniteSets, Bags, TLC

(***************************************************************************)
(* Bounds of the exploration.                                              *)
(***************************************************************************)
\* number of search results handed to selectTargetFile
MaxResults == 3

\* directory depth of the importing file
MaxDirDepth == 2
\* path segments of an import specifier
MaxRelParts == 3
\* primary files handed to buildLocalContext
MaxPrimary == 2
\* files in each of the two lists handed to formatFilesForAI
MaxFiles == 2
\* exchanges of a conversation handed to buildConversationHistoryPrompt
MaxExchanges == 2
\* updateConversationMemory calls explored after the warm-up
MaxCalls == 2
\* advances of the clock Date.now() explored after the warm-up
MaxTicks == 1
\* generate requests that may be in flight together
MaxInFlight == 2
\* messages of a log handed to analyzeUserPreferences
MaxMessages == 3

(***************************************************************************)
(* Program constants.                                                      *)
(***************************************************************************)
\* messages.length > 20 triggers the clean-up
EvictThreshold == 20
\* messages.slice(-15)
EvictKeep == 15
\* context files longer than this are cut to this length
ContextFileLimit == 2000
\* a conversation digest longer than this is cut to this length
MemoryLimit == 2000

Null == [isNull |-> TRUE]

(***************************************************************************)
(* String and array helpers (the JavaScript built-ins the code calls).     *)
(***************************************************************************)
Min(a, b) == IF a < b THEN a ELSE b
Max(a, b) == IF a > b THEN a ELSE b

\* Array.prototype.includes
Includes(arr, x) == \E i \in 1..Len(arr) : arr[i] = x

\* Array.prototype.slice(-n): the last n elements (all of them when fewer)
SliceLast(arr, n) == SubSeq(arr, Max(1, Len(arr) - n + 1), Len(arr))

\* Array.prototype.slice(0, n)
SliceFirst(arr, n) == SubSeq(arr, 1, Min(n, Len(arr)))

\* String.prototype.substring(0, n)
Substring0(s, n) == SubSeq(s, 1, Min(Max(n, 0), Len(s)))

\* the character of s at the 1-based position i, as a string
CharAt(s, i) == SubSeq(s, i, i)

\* String.prototype.startsWith, endsWith
StartsWith(s, p) == Len(p) <= Len(s) /\ SubSeq(s, 1, Len(p)) = p
EndsWith(s, p) == Len(p) <= Len(s) /\ SubSeq(s, Len(s) - Len(p) + 1, Len(s)) = p

\* String.prototype.lastIndexOf(ch) for a one-character ch: 0-based, -1 when
\* ch does not occur
LastIndexOf(s, ch) ==
  LET at == {i \in 1..Len(s) : CharAt(s, i) = ch}
  IN IF at = {} THEN -1 ELSE (CHOOSE i \in at : \A j \in at : j <= i) - 1

\* String.prototype.split(ch) for a one-character ch: the pieces between
\* the occurrences of ch
Split(s, ch) ==
  LET at == {i \in 1..Len(s) : CharAt(s, i) = ch}
      \* the position of the k-th occurrence; 0 and Len(s) + 1 bracket them
      cut(k) == IF k = 0 THEN 0
                ELSE IF k > Cardinality(at) THEN Len(s) + 1
                ELSE CHOOSE i \in at : Cardinality({j \in at : j < i}) = k - 1
  IN [k \in 1..(Cardinality(at) + 1) |->
        SubSeq(s, cut(k - 1) + 1, cut(k) - 1)]

\* Array.prototype.filter(p => p) on strings: the non-empty ones
RECURSIVE NonEmpty(_)
NonEmpty(arr) ==
  IF arr = <<>> THEN <<>>
  ELSE IF Head(arr) = "" THEN NonEmpty(Tail(arr))
  ELSE <<Head(arr)>> \o NonEmpty(Tail(arr))

\* Array.prototype.join
RECURSIVE Join(_, _)
Join(arr, sep) ==
  IF arr = <<>> THEN ""
  ELSE IF Len(arr) = 1 THEN arr[1]
  ELSE arr[1] \o sep \o Join(Tail(arr), sep)

\* Array.prototype.pop, as the array it leaves (an empty array stays empty)
Pop(arr) == IF arr = <<>> THEN <<>> ELSE SubSeq(arr, 1, Len(arr) - 1)

\* String.prototype.replace(/\/+/g, '/'): runs of slashes become one slash
RECURSIVE CollapseSlashes(_)
CollapseSlashes(s) ==
  IF Len(s) < 2 THEN s
  ELSE IF CharAt(s, 1) = "/" /\ CharAt(s, 2) = "/" THEN CollapseSlashes(Tail(s))
  ELSE CharAt(s, 1) \o CollapseSlashes(Tail(s))

\* a value that may be absent: Null, or Some(v)
Some(v) == [value |-> v]

\* the result of a call: not made yet, or returned with a value
Pending == [pending |-> TRUE]
Returned(v) == [returned |-> v]

(***************************************************************************)
(* Conversation types (src/unnamed/part_003).                              *)
(***************************************************************************)
\* ConversationMessage.metadata with every optional field undefined
NoMetadata ==
  [ generatedCode |-> "", appliedFiles |-> <<>>, actionSummary |-> "",
    fileCount |-> 0, componentCount |-> 0, addedPackages |-> <<>> ]

\* AppliedFile
AppliedFile(path, action, size, componentName) ==
  [ path |-> path, action |-> action, size |-> size,
    componentName |-> componentName ]

\* the aiResponse parameter of updateConversationMemory
AiResponse(generatedCode, appliedFiles, actionSummary, fileCount, componentCount, packagesToInstall) ==
  [ generatedCode |-> generatedCode, appliedFiles |-> appliedFiles,
    actionSummary |-> actionSummary, fileCount |-> fileCount,
    componentCount |-> componentCount,
    packagesToInstall |-> packagesToInstall ]

\* the session summary of a fresh conversation
EmptySessionSummary ==
  [ totalInteractions |-> 0, filesCreated |-> <<>>, filesModified |-> <<>>,
    packagesAdded |-> <<>>, componentsCreated |-> <<>>,
    lastActionSummary |-> "" ]

\* the ConversationState the generate route creates on the first request
NewConversationState(t) ==
  [ conversationId |-> "conv-" \o ToString(t),
    startedAt |-> t,
    lastUpdated |-> t,
    context |->
      [ messages |-> <<>>,
        currentTopic |-> "",
        projectEvolution |-> [ majorChanges |-> <<>> ],
        sessionSummary |-> EmptySessionSummary ] ]

\* the user message a generate request builds from its prompt
UserMessage(prompt, t) ==
  [ id |-> "msg-" \o ToString(t), role |-> "user", content |-> prompt,
    timestamp |-> t, metadata |-> NoMetadata ]

(***************************************************************************)
(* updateSessionSummary (conversation-memory.ts 279-324).                  *)
(***************************************************************************)
\* one turn of appliedFiles.forEach
ApplyFile(summary, file) ==
  IF file.action = "created" /\ ~Includes(summary.filesCreated, file.path)
  THEN LET s1 == [summary EXCEPT !.filesCreated = Append(@, file.path)]
       IN IF file.componentName # ""
             /\ ~Includes(s1.componentsCreated, file.componentName)
          THEN [s1 EXCEPT !.componentsCreated = Append(@, file.componentName)]
          ELSE s1
  ELSE IF file.action = "modified" /\ ~Includes(summary.filesModified, file.path)
  THEN [summary EXCEPT !.filesModified = Append(@, file.path)]
  ELSE summary

RECURSIVE ApplyFiles(_, _)
ApplyFiles(summary, files) ==
  IF files = <<>> THEN summary
  ELSE ApplyFiles(ApplyFile(summary, Head(files)), Tail(files))

\* mutant: every package is pushed
ApplyPackageAlways(summary, pkg) ==
  [summary EXCEPT !.packagesAdded = Append(@, pkg)]

\* one turn of packagesToInstall.forEach
ApplyPackage(summary, pkg) ==
  IF ~Includes(summary.packagesAdded, pkg)
  THEN [summary EXCEPT !.packagesAdded = Append(@, pkg)]
  ELSE summary

RECURSIVE ApplyPackages(_, _)
ApplyPackages(summary, pkgs) ==
  IF pkgs = <<>> THEN summary
  ELSE ApplyPackages(ApplyPackage(summary, Head(pkgs)), Tail(pkgs))

\* summary.totalInteractions++
CountInteraction(summary) ==
  [summary EXCEPT !.totalInteractions = @ + 1]

UpdateSessionSummary(summary, aiResponse) ==
  LET s0 == IF summary = Null THEN EmptySessionSummary ELSE summary
      s1 == [CountInteraction(s0) EXCEPT
               !.lastActionSummary = aiResponse.actionSummary]
      s2 == ApplyFiles(s1, aiResponse.appliedFiles)
  IN ApplyPackages(s2, aiResponse.packagesToInstall)

(***************************************************************************)
(* updateConversationMemory (conversation-memory.ts 101-144).              *)
(***************************************************************************)
\* the assistant message synthesized from an AI response
\* mutant: the assistant message is stamped a millisecond early
AiMessageBackdated(aiResponse, t) ==
  [ id |-> "ai-" \o ToString(t),
    role |-> "assistant",
    content |-> IF aiResponse.actionSummary # ""
                THEN aiResponse.actionSummary
                ELSE "Generated code response",
    timestamp |-> t - 1,
    metadata |->
      [ generatedCode |-> aiResponse.generatedCode,
        appliedFiles |-> aiResponse.appliedFiles,
        actionSummary |-> aiResponse.actionSummary,
        fileCount |-> aiResponse.fileCount,
        componentCount |-> aiResponse.componentCount,
        addedPackages |-> aiResponse.packagesToInstall ] ]

AiMessage(aiResponse, t) ==
  [ id |-> "ai-" \o ToString(t),
    role |-> "assistant",
    content |-> IF aiResponse.actionSummary # ""
                THEN aiResponse.actionSummary
                ELSE "Generated code response",
    timestamp |-> t,
    metadata |->
      [ generatedCode |-> aiResponse.generatedCode,
        appliedFiles |-> aiResponse.appliedFiles,
        actionSummary |-> aiResponse.actionSummary,
        fileCount |-> aiResponse.fileCount,
        componentCount |-> aiResponse.componentCount,
        addedPackages |-> aiResponse.packagesToInstall ] ]

\* mutant: the assistant message is pushed before the user message
PushedAssistantFirst(userMessage, aiResponse, t) ==
  IF aiResponse = Null THEN <<userMessage>>
  ELSE <<AiMessage(aiResponse, t), userMessage>>

\* the messages one call pushes: the user message, then the assistant message
\* when a response is given
PushedMessages(userMessage, aiResponse, t) ==
  IF aiResponse = Null THEN <<userMessage>>
  ELSE <<userMessage, AiMessage(aiResponse, t)>>

\* mutant: the clean-up keeps the oldest messages (slice(0, 15))
CleanUpKeepsOldest(context) ==
  IF Len(context.messages) > EvictThreshold
  THEN [context EXCEPT !.messages = SliceFirst(@, EvictKeep)]
  ELSE context

\* mutant: the clean-up also cuts the cumulative lists of the summary
CleanUpCutsSummary(context) ==
  IF Len(context.messages) > EvictThreshold
  THEN [context EXCEPT !.messages = SliceLast(@, EvictKeep),
                       !.sessionSummary.filesCreated = <<>>]
  ELSE context

\* mutant: the clean-up waits for one message more
CleanUpOneLate(context) ==
  IF Len(context.messages) > EvictThreshold + 1
  THEN [context EXCEPT !.messages = SliceLast(@, EvictKeep)]
  ELSE context

\* "Clean up old messages": the same statement in updateConversationMemory
\* (139-141) and at the start of the generate route (route.ts 60-62)
CleanUpOldMessages(context) ==
  IF Len(context.messages) > EvictThreshold
  THEN [context EXCEPT !.messages = SliceLast(@, EvictKeep)]
  ELSE context

\* mutant: an interaction is counted for every call
SummaryCountsEveryCall(context, aiResponse) ==
  IF aiResponse = Null THEN CountInteraction(context.sessionSummary)
  ELSE UpdateSessionSummary(context.sessionSummary, aiResponse)

\* the summary after the call: updated only when a response is given
SummaryAfter(context, aiResponse) ==
  IF aiResponse = Null THEN context.sessionSummary
  ELSE UpdateSessionSummary(context.sessionSummary, aiResponse)

UpdateConversationMemory(state, userMessage, aiResponse, t) ==
  LET pushed == [state.context EXCEPT
                   !.messages = @ \o PushedMessages(userMessage, aiResponse, t),
                   !.sessionSummary = SummaryAfter(state.context, aiResponse)]
  IN [state EXCEPT !.context = CleanUpOldMessages(pushed),
                   !.lastUpdated = t]

(***************************************************************************)
(* resolveImportPath (part_001 129-187).                                   *)
(***************************************************************************)
\* possibleExtensions
PossibleExtensions == <<".jsx", ".tsx", ".js", ".ts">>

\* mutant: '..' is dropped instead of popping a segment
ApplyPartIgnoresParent(parts, part) ==
  IF part = ".." THEN parts
  ELSE IF part # "." THEN Append(parts, part)
  ELSE parts

\* one turn of the loop over relativeParts
ApplyPart(parts, part) ==
  IF part = ".." THEN Pop(parts)
  ELSE IF part # "." THEN Append(parts, part)
  ELSE parts

RECURSIVE ApplyParts(_, _)
ApplyParts(parts, relativeParts) ==
  IF relativeParts = <<>> THEN parts
  ELSE ApplyParts(ApplyPart(parts, Head(relativeParts)), Tail(relativeParts))

\* mutant: the segments are joined without the leading slash
ResolvePathWithoutRoot(base, relative) ==
  Join(ApplyParts(NonEmpty(Split(base, "/")),
                  NonEmpty(Split(relative, "/"))), "/")

\* the inner resolvePath(base, relative)
ResolvePath(base, relative) ==
  "/" \o Join(ApplyParts(NonEmpty(Split(base, "/")),
                         NonEmpty(Split(relative, "/"))), "/")

\* the directory of the importing file
FromDir(fromFile) == Substring0(fromFile, LastIndexOf(fromFile, "/"))

\* mutant: an extension is appended also to a specifier that carries one
PossiblePathsAlwaysAppending(fromFile, importSource) ==
  LET resolved == ResolvePath(FromDir(fromFile), importSource)
  IN IF EndsWith(importSource, "/")
     THEN [i \in 1..Len(PossibleExtensions) |->
             resolved \o "/index" \o PossibleExtensions[i]]
     ELSE [i \in 1..Len(PossibleExtensions) |->
             resolved \o PossibleExtensions[i]]

\* possiblePaths, for a specifier that starts with '.'
PossiblePaths(fromFile, importSource) ==
  LET resolved == ResolvePath(FromDir(fromFile), importSource)
  IN IF EndsWith(importSource, "/")
     THEN [i \in 1..Len(PossibleExtensions) |->
             resolved \o "/index" \o PossibleExtensions[i]]
     ELSE IF \E i \in 1..Len(PossibleExtensions) :
               EndsWith(importSource, PossibleExtensions[i])
     THEN <<resolved>>
     ELSE [i \in 1..Len(PossibleExtensions) |->
             resolved \o PossibleExtensions[i]]

\* mutant: the first path of allFiles that is a candidate wins
RECURSIVE FirstMatchInListOrder(_, _)
FirstMatchInListOrder(possiblePaths, allFiles) ==
  IF allFiles = <<>> THEN Null
  ELSE IF \E i \in 1..Len(possiblePaths) :
            CollapseSlashes(possiblePaths[i]) = Head(allFiles)
  THEN Some(Head(allFiles))
  ELSE FirstMatchInListOrder(possiblePaths, Tail(allFiles))

\* the first candidate whose normalized path is in allFiles
RECURSIVE FirstMatch(_, _)
FirstMatch(possiblePaths, allFiles) ==
  IF possiblePaths = <<>> THEN Null
  ELSE LET normalizedPath == CollapseSlashes(Head(possiblePaths))
       IN IF Includes(allFiles, normalizedPath) THEN Some(normalizedPath)
          ELSE FirstMatch(Tail(possiblePaths), allFiles)

\* mutant: a specifier is resolved whatever its first character
ResolveAnySpecifier(fromFile, importSource, allFiles) ==
  FirstMatch(PossiblePaths(fromFile, importSource), allFiles)

ResolveImportPath(fromFile, importSource, allFiles) ==
  IF ~StartsWith(importSource, ".") THEN Null
  ELSE FirstMatch(PossiblePaths(fromFile, importSource), allFiles)

(***************************************************************************)
(* buildLocalContext (part_001 49-124).  A manifest is                     *)
(*   [ files: path -> FileInfo, componentTree: name -> node ];             *)
(* allFiles is Object.keys(manifest.files), in key order.  A FileInfo is   *)
(*   [ imports: <<[source, isLocal]>>, componentInfo: Null or [name] ]     *)
(* and a tree node is [ file, imports, importedBy ].                       *)
(***************************************************************************)
\* Array.prototype.find with the given suffixes: the first element that ends
\* with one of them, or Null
RECURSIVE FindEndingWith(_, _)
FindEndingWith(allFiles, suffixes) ==
  IF allFiles = <<>> THEN Null
  ELSE IF \E x \in suffixes : EndsWith(Head(allFiles), x) THEN Some(Head(allFiles))
  ELSE FindEndingWith(Tail(allFiles), suffixes)

\* essentialFiles.push(file) when the file was found and is not primary
PushEssential(essentialFiles, found, primaryFiles) ==
  IF found # Null /\ ~Includes(primaryFiles, found.value)
  THEN Append(essentialFiles, found.value)
  ELSE essentialFiles

\* essentialFiles: App.jsx, then the tailwind configuration, then the
\* global stylesheet
EssentialFiles(primaryFiles, allFiles) ==
  LET appFile == FindEndingWith(allFiles, {"App.jsx", "App.tsx"})
      tailwindConfig ==
        FindEndingWith(allFiles, {"tailwind.config.js", "tailwind.config.ts"})
      indexCss == FindEndingWith(allFiles, {"index.css", "globals.css"})
      e1 == PushEssential(<<>>, appFile, primaryFiles)
      e2 == PushEssential(e1, tailwindConfig, primaryFiles)
  IN PushEssential(e2, indexCss, primaryFiles)

\* Set.prototype.add on a Set kept in insertion order
SetAdd(set, x) == IF Includes(set, x) THEN set ELSE Append(set, x)

RECURSIVE SetAddAll(_, _)
SetAddAll(set, xs) ==
  IF xs = <<>> THEN set ELSE SetAddAll(SetAdd(set, Head(xs)), Tail(xs))

\* mutant: the path is added without the primaryFiles.includes test
AddAlways(contextFiles, path, primaryFiles) == SetAdd(contextFiles, path)

\* contextFiles.add(path) unless the path is primary
AddUnlessPrimary(contextFiles, path, primaryFiles) ==
  IF ~Includes(primaryFiles, path) THEN SetAdd(contextFiles, path)
  ELSE contextFiles

\* the loops run in program order: the outcome of a turn is computed before
\* the next turn starts
Computed(v) == v = v

\* "1. Find directly imported local files": the loop over fileInfo.imports
RECURSIVE AddImports(_, _, _, _, _)
AddImports(contextFiles, imports, primaryFile, primaryFiles, allFiles) ==
  IF imports = <<>> THEN contextFiles
  ELSE LET importInfo == Head(imports)
           resolvedPath ==
             IF importInfo.isLocal /\ importInfo.source # ""
             THEN ResolveImportPath(primaryFile, importInfo.source, allFiles)
             ELSE Null
           next == IF resolvedPath # Null
                   THEN AddUnlessPrimary(contextFiles, resolvedPath.value,
                                         primaryFiles)
                   ELSE contextFiles
       IN IF Computed(next)
          THEN AddImports(next, Tail(imports), primaryFile, primaryFiles,
                          allFiles)
          ELSE next

\* the loops over treeNode.importedBy and treeNode.imports: the file of
\* every named component that has a node
RECURSIVE AddComponents(_, _, _, _)
AddComponents(contextFiles, names, manifest, primaryFiles) ==
  IF names = <<>> THEN contextFiles
  ELSE LET next ==
             IF Head(names) \in DOMAIN manifest.componentTree
             THEN AddUnlessPrimary(contextFiles,
                                   manifest.componentTree[Head(names)].file,
                                   primaryFiles)
             ELSE contextFiles
       IN IF Computed(next)
          THEN AddComponents(next, Tail(names), manifest, primaryFiles)
          ELSE next

\* mutant: the dependencies are visited before the consumers
AddTreeNeighboursImportsFirst(contextFiles, treeNode, manifest, primaryFiles) ==
  AddComponents(AddComponents(contextFiles, treeNode.imports, manifest,
                              primaryFiles),
                treeNode.importedBy, manifest, primaryFiles)

\* "2. Find components that import this primary file": importedBy first,
\* then imports
AddTreeNeighbours(contextFiles, treeNode, manifest, primaryFiles) ==
  AddComponents(AddComponents(contextFiles, treeNode.importedBy, manifest,
                              primaryFiles),
                treeNode.imports, manifest, primaryFiles)

\* the body of the loop over primaryFiles
AddLocalContext(contextFiles, primaryFile, primaryFiles, manifest, allFiles) ==
  IF primaryFile \notin DOMAIN manifest.files THEN contextFiles
  ELSE LET fileInfo == manifest.files[primaryFile]
           c1 == AddImports(contextFiles, fileInfo.imports, primaryFile,
                            primaryFiles, allFiles)
       IN IF fileInfo.componentInfo # Null
             /\ fileInfo.componentInfo.name \in DOMAIN manifest.componentTree
          THEN AddTreeNeighbours(c1,
                 manifest.componentTree[fileInfo.componentInfo.name],
                 manifest, primaryFiles)
          ELSE c1

\* mutant: the loop ends at a primary file the manifest does not have
RECURSIVE ForEachPrimaryUntilAbsent(_, _, _, _, _)
ForEachPrimaryUntilAbsent(contextFiles, rest, primaryFiles, manifest, allFiles) ==
  IF rest = <<>> \/ Head(rest) \notin DOMAIN manifest.files THEN contextFiles
  ELSE LET next == AddLocalContext(contextFiles, Head(rest), primaryFiles,
                                  manifest, allFiles)
       IN IF Computed(next)
          THEN ForEachPrimaryUntilAbsent(next, Tail(rest), primaryFiles,
                                         manifest, allFiles)
          ELSE next

RECURSIVE ForEachPrimary(_, _, _, _, _)
ForEachPrimary(contextFiles, rest, primaryFiles, manifest, allFiles) ==
  IF rest = <<>> THEN contextFiles
  ELSE LET next == AddLocalContext(contextFiles, Head(rest), primaryFiles,
                                  manifest, allFiles)
       IN IF Computed(next)
          THEN ForEachPrimary(next, Tail(rest), primaryFiles, manifest,
                              allFiles)
          ELSE next

\* Array.prototype.filter(f => !excluded.includes(f))
RECURSIVE Without(_, _)
Without(arr, excluded) ==
  IF arr = <<>> THEN <<>>
  ELSE IF Includes(excluded, Head(arr)) THEN Without(Tail(arr), excluded)
  ELSE <<Head(arr)>> \o Without(Tail(arr), excluded)

\* mutant: the files found around the primary files are expanded once more
BuildTwoHopContext(primaryFiles, manifest, allFiles) ==
  LET essentialFiles == EssentialFiles(primaryFiles, allFiles)
      oneHop ==
        ForEachPrimary(SetAddAll(<<>>, essentialFiles), primaryFiles,
                       primaryFiles, manifest, allFiles)
      contextFiles ==
        ForEachPrimary(oneHop, Without(oneHop, essentialFiles), primaryFiles,
                       manifest, allFiles)
  IN essentialFiles \o Without(contextFiles, essentialFiles)

BuildLocalContext(primaryFiles, manifest, allFiles) ==
  LET essentialFiles == EssentialFiles(primaryFiles, allFiles)
      contextFiles ==
        ForEachPrimary(SetAddAll(<<>>, essentialFiles), primaryFiles,
                       primaryFiles, manifest, allFiles)
  IN essentialFiles \o Without(contextFiles, essentialFiles)

(***************************************************************************)
(* formatFilesForAI (part_001 424-501).  The two Record<string, string>    *)
(* arguments are sequences of [path, content] in Object.entries order.     *)
(* The fixed texts carry pictographs, each two UTF-16 units long; they are *)
(* written here as "@@"; a backtick is written as an apostrophe.           *)
(***************************************************************************)
\* Array.prototype.pop of a non-empty array, as the element it returns
Last(arr) == arr[Len(arr)]

\* getFileExtension
GetFileExtension(path) ==
  LET ext == Last(Split(path, "."))
  IN CASE ext \in {"js", "jsx"} -> "javascript"
       [] ext \in {"ts", "tsx"} -> "typescript"
       [] ext = "css" -> "css"
       [] ext = "json" -> "json"
       [] OTHER -> ext

\* the code fence, three backticks, written with apostrophes
Fence == "'''"

\* mutant: a primary file is cut like a context file
PrimarySectionCut(path, content) ==
  "### " \o path \o "\n"
  \o "**IMPORTANT: This is the COMPLETE file. Your output must include EVERY line shown below, modified only where necessary.**\n"
  \o Fence \o GetFileExtension(path) \o "\n"
  \o (IF Len(content) > ContextFileLimit
      THEN Substring0(content, ContextFileLimit)
           \o "\n// ... [truncated for context length]"
      ELSE content) \o "\n"
  \o Fence \o "\n"

\* the section pushed for one primary file
PrimarySection(path, content) ==
  "### " \o path \o "\n"
  \o "**IMPORTANT: This is the COMPLETE file. Your output must include EVERY line shown below, modified only where necessary.**\n"
  \o Fence \o GetFileExtension(path) \o "\n"
  \o content \o "\n"
  \o Fence \o "\n"

\* "Truncate very large context files to save tokens"
TruncatedContent(content) ==
  IF Len(content) > ContextFileLimit
  THEN Substring0(content, ContextFileLimit)
       \o "\n// ... [truncated for context length]"
  ELSE content

\* the section pushed for one context file
ContextSection(path, content) ==
  "### " \o path \o " (Reference Only)\n"
  \o Fence \o GetFileExtension(path) \o "\n"
  \o TruncatedContent(content) \o "\n"
  \o Fence \o "\n"

FormatSections(primaryFiles, contextFiles) ==
  << "# File Organization for Edit Request\n",
     "The files below are organized into two categories to help you understand what to modify vs what to reference:\n",
     "## @@ Files to Edit\n",
     "**THESE are the files you should modify to fulfill the user's request.**\n",
     "@@ You MUST ONLY generate the files listed in this section. Do NOT generate any other files! @@\n",
     "@@ CRITICAL: Return the COMPLETE file - NEVER truncate with \"...\" or skip any lines! @@\n",
     "The file MUST include ALL imports, ALL functions, ALL JSX, and ALL closing tags.\n\n" >>
  \o (IF primaryFiles = <<>>
      THEN <<"*No primary files identified for editing. Please analyze the request and determine which files need modification.*\n\n">>
      ELSE [i \in 1..Len(primaryFiles) |->
              PrimarySection(primaryFiles[i].path, primaryFiles[i].content)])
  \o (IF contextFiles = <<>> THEN <<>>
      ELSE << "\n## @@ Context Files for Reference\n",
              "**THESE files are provided for context and understanding relationships.**\n",
              "- Use these to understand component APIs, import paths, and architectural patterns\n",
              "- DO NOT modify these files unless they are explicitly mentioned in the user's request\n",
              "- These files show you how components are connected and what dependencies exist\n\n" >>
           \o [i \in 1..Len(contextFiles) |->
                 ContextSection(contextFiles[i].path, contextFiles[i].content)])
  \o << "\n## @@ Instructions\n",
        "1. **Focus on \"Files to Edit\"** - These are your primary targets\n",
        "2. **Reference \"Context Files\"** - Use these to understand relationships and APIs\n",
        "3. **Maintain consistency** - Follow patterns shown in the context files\n",
        "4. **Preserve existing functionality** - Only change what the user specifically requested\n" >>

FormatFilesForAI(primaryFiles, contextFiles) ==
  Join(FormatSections(primaryFiles, contextFiles), "\n")

(***************************************************************************)
(* buildConversationHistoryPrompt (conversation-memory.ts 8-96) and its    *)
(* helpers (149-274, 329-350).  Date.now() is the parameter t.  A message  *)
(* without metadata has metadata Null; a context without sessionSummary    *)
(* has sessionSummary Null.  The pictograph of the heading, two UTF-16     *)
(* units long, is written "@@".                                            *)
(***************************************************************************)
\* String.prototype.includes
StringIncludes(s, piece) ==
  \E i \in 0..(Len(s) - Len(piece)) : SubSeq(s, i + 1, i + Len(piece)) = piece

\* String.prototype.toLowerCase, on the letters A-Z
LowerOf(c) ==
  LET upper == "ABCDEFGHIJKLMNOPQRSTUVWXYZ"
      lower == "abcdefghijklmnopqrstuvwxyz"
      at == {i \in 1..26 : CharAt(upper, i) = c}
  IN IF at = {} THEN c ELSE CharAt(lower, CHOOSE i \in at : TRUE)

RECURSIVE LowerRange(_, _, _)
LowerRange(s, lo, hi) ==
  IF lo > hi THEN ""
  ELSE IF lo = hi THEN LowerOf(CharAt(s, lo))
  ELSE LET mid == (lo + hi) \div 2
       IN LowerRange(s, lo, mid) \o LowerRange(s, mid + 1, hi)

ToLowerCase(s) == LowerRange(s, 1, Len(s))

\* truncateText
TruncateText(text, maxLength) ==
  IF Len(text) <= maxLength THEN text
  ELSE Substring0(text, maxLength - 3) \o "..."

\* getTimeAgo
GetTimeAgo(timestamp, t) ==
  LET minutes == (t - timestamp) \div (1000 * 60)
      hours == minutes \div 60
      days == hours \div 24
  IN IF minutes < 1 THEN "just now"
     ELSE IF minutes < 60 THEN ToString(minutes) \o "m ago"
     ELSE IF hours < 24 THEN ToString(hours) \o "h ago"
     ELSE ToString(days) \o "d ago"

\* Date.prototype.toLocaleTimeString: the host's locale and time zone decide
\* the text; this is the en-US rendering in UTC, h:mm:ss AM/PM
ToLocaleTimeString(timestamp) ==
  LET seconds == (timestamp \div 1000) % 86400
      hour == seconds \div 3600
      pad(n) == IF n < 10 THEN "0" \o ToString(n) ELSE ToString(n)
  IN ToString(((hour + 11) % 12) + 1) \o ":" \o pad((seconds % 3600) \div 60)
     \o ":" \o pad(seconds % 60) \o (IF hour < 12 THEN " AM" ELSE " PM")

\* a user message with the assistant message paired with it, or Null
Interaction(userMessage, aiMessage) ==
  [userMessage |-> userMessage, aiMessage |-> aiMessage]

\* the loop of getRecentInteractions, from index i (1-based) downwards;
\* userMessage is Null or Some(message)
RECURSIVE ScanBackwards(_, _, _, _, _)
ScanBackwards(messages, i, interactions, userMessage, maxCount) ==
  IF i < 1 \/ Len(interactions) >= maxCount
  THEN [interactions |-> interactions, userMessage |-> userMessage]
  ELSE LET message == messages[i]
       IN IF message.role = "user"
          THEN ScanBackwards(messages, i - 1,
                 IF userMessage # Null
                 THEN <<Interaction(userMessage.value, Null)>> \o interactions
                 ELSE interactions,
                 Some(message), maxCount)
          ELSE IF message.role = "assistant" /\ userMessage # Null
          THEN ScanBackwards(messages, i - 1,
                 <<Interaction(userMessage.value, Some(message))>>
                   \o interactions,
                 Null, maxCount)
          ELSE ScanBackwards(messages, i - 1, interactions, userMessage,
                             maxCount)

\* getRecentInteractions
GetRecentInteractions(messages, maxCount) ==
  LET scan == ScanBackwards(messages, Len(messages), <<>>, Null, maxCount)
      interactions ==
        IF scan.userMessage # Null /\ Len(scan.interactions) < maxCount
        THEN <<Interaction(scan.userMessage.value, Null)>> \o scan.interactions
        ELSE scan.interactions
  IN SliceFirst(interactions, maxCount)

\* generateActionSummary
GenerateActionSummary(aiMessage) ==
  LET metadata == aiMessage.metadata
  IN IF metadata = Null THEN "Generated response"
     ELSE LET parts ==
                (IF metadata.fileCount # 0
                 THEN IF metadata.fileCount = 1 THEN <<"Modified 1 file">>
                      ELSE <<"Modified " \o ToString(metadata.fileCount)
                             \o " files">>
                 ELSE <<>>)
                \o (IF metadata.componentCount # 0
                    THEN IF metadata.componentCount = 1
                         THEN <<"created 1 component">>
                         ELSE <<"created " \o ToString(metadata.componentCount)
                                \o " components">>
                    ELSE <<>>)
                \o (IF metadata.addedPackages # <<>>
                    THEN <<"added " \o ToString(Len(metadata.addedPackages))
                           \o " package"
                           \o (IF Len(metadata.addedPackages) > 1 THEN "s"
                               ELSE "")>>
                    ELSE <<>>)
          IN IF parts # <<>> THEN Join(parts, ", ") ELSE "Generated code"

\* file.path.split('/').pop() || file.path
FileName(path) ==
  LET name == Last(Split(path, "/")) IN IF name # "" THEN name ELSE path

\* acc[action] of summarizeFileActions: the file names of the applied files
\* with the action, in their order
RECURSIVE FileNamesWith(_, _)
FileNamesWith(appliedFiles, action) ==
  IF appliedFiles = <<>> THEN <<>>
  ELSE (IF Head(appliedFiles).action = action
        THEN <<FileName(Head(appliedFiles).path)>> ELSE <<>>)
       \o FileNamesWith(Tail(appliedFiles), action)

\* summarizeFileActions
SummarizeFileActions(appliedFiles) ==
  LET created == FileNamesWith(appliedFiles, "created")
      modified == FileNamesWith(appliedFiles, "modified")
      deleted == FileNamesWith(appliedFiles, "deleted")
      firstThree(verb, names) ==
        verb \o Join(SliceFirst(names, 3), ", ")
        \o (IF Len(names) > 3 THEN " (+" \o ToString(Len(names) - 3) \o ")"
            ELSE "")
      summaries ==
        (IF created # <<>> THEN <<firstThree("created ", created)>> ELSE <<>>)
        \o (IF modified # <<>> THEN <<firstThree("modified ", modified)>>
            ELSE <<>>)
        \o (IF deleted # <<>> THEN <<"deleted " \o Join(deleted, ", ")>>
            ELSE <<>>)
  IN Join(summaries, ", ")

\* \w and \s of the two regular expressions of analyzeUserPreferences
IsWordChar(c) ==
  /\ Len(c) = 1
  /\ StringIncludes(
       "abcdefghijklmnopqrstuvwxyzABCDEFGHIJKLMNOPQRSTUVWXYZ0123456789_", c)
IsSpace(c) == c \in {" ", "\t", "\n", "\r"}

\* the word stands in content from position i (1-based), after a \b
WordAt(content, i, word) ==
  /\ i + Len(word) - 1 <= Len(content)
  /\ SubSeq(content, i, i + Len(word) - 1) = word
  /\ (i = 1 \/ ~IsWordChar(CharAt(content, i - 1)))

\* content.match(/\b(update|change|fix|modify|edit|remove|delete)\s+(\w+\s+)?(\w+)\b/):
\* one of the verbs after a \b, then white space, then a word character
MatchesTargetedEdit(content) ==
  \E verb \in {"update", "change", "fix", "modify", "edit", "remove", "delete"} :
    \E i \in 1..Len(content) :
      /\ WordAt(content, i, verb)
      /\ \E k \in (i + Len(verb) + 1)..Len(content) :
           /\ \A m \in (i + Len(verb))..(k - 1) : IsSpace(CharAt(content, m))
           /\ IsWordChar(CharAt(content, k))

\* content.match(/\b(rebuild|recreate|redesign|overhaul|refactor)\b/)
MatchesComprehensiveEdit(content) ==
  \E verb \in {"rebuild", "recreate", "redesign", "overhaul", "refactor"} :
    \E i \in 1..Len(content) :
      /\ WordAt(content, i, verb)
      /\ \/ i + Len(verb) > Len(content)
         \/ ~IsWordChar(CharAt(content, i + Len(verb)))

\* "Extract common request patterns" from one lowercased content
RequestPatterns(content) ==
  (IF StringIncludes(content, "hero") THEN <<"hero section edits">> ELSE <<>>)
  \o (IF StringIncludes(content, "header") THEN <<"header modifications">>
      ELSE <<>>)
  \o (IF StringIncludes(content, "color") \/ StringIncludes(content, "style")
      THEN <<"styling changes">> ELSE <<>>)
  \o (IF StringIncludes(content, "button") THEN <<"button updates">> ELSE <<>>)
  \o (IF StringIncludes(content, "animation") THEN <<"animation requests">>
      ELSE <<>>)

RECURSIVE AllRequestPatterns(_)
AllRequestPatterns(contents) ==
  IF contents = <<>> THEN <<>>
  ELSE RequestPatterns(Head(contents)) \o AllRequestPatterns(Tail(contents))

\* analyzeUserPreferences without the filter on the role
AnalyzeEveryMessage(messages) ==
  LET contents == [i \in 1..Len(messages) |->
                     ToLowerCase(messages[i].content)]
      targetedEditCount ==
        Cardinality({i \in 1..Len(contents) : MatchesTargetedEdit(contents[i])})
      comprehensiveEditCount ==
        Cardinality({i \in 1..Len(contents) :
                       MatchesComprehensiveEdit(contents[i])})
  IN [ commonPatterns |->
         SliceFirst(SetAddAll(<<>>, AllRequestPatterns(contents)), 3),
       preferredEditStyle |->
         IF targetedEditCount > comprehensiveEditCount THEN "targeted"
         ELSE "comprehensive" ]

\* analyzeUserPreferences
AnalyzeUserPreferences(messages) ==
  LET userMessages == SelectSeq(messages, LAMBDA m : m.role = "user")
      contents == [i \in 1..Len(userMessages) |->
                     ToLowerCase(userMessages[i].content)]
      targetedEditCount ==
        Cardinality({i \in 1..Len(contents) : MatchesTargetedEdit(contents[i])})
      comprehensiveEditCount ==
        Cardinality({i \in 1..Len(contents) :
                       MatchesComprehensiveEdit(contents[i])})
  IN [ commonPatterns |->
         SliceFirst(SetAddAll(<<>>, AllRequestPatterns(contents)), 3),
       preferredEditStyle |->
         IF targetedEditCount > comprehensiveEditCount THEN "targeted"
         ELSE "comprehensive" ]

\* the sections pushed for one recent interaction, numbered from the oldest
InteractionSections(interaction, number, t) ==
  << "\n**" \o ToString(number) \o ". User ("
     \o GetTimeAgo(interaction.userMessage.timestamp, t) \o "):** \""
     \o TruncateText(interaction.userMessage.content, 80) \o "\"" >>
  \o (IF interaction.aiMessage = Null THEN <<>>
      ELSE LET aiMessage == interaction.aiMessage.value
               metadata == aiMessage.metadata
               aiSummary ==
                 IF metadata # Null /\ metadata.actionSummary # ""
                 THEN metadata.actionSummary
                 ELSE GenerateActionSummary(aiMessage)
           IN <<"**AI Response:** " \o aiSummary>>
              \o (IF metadata # Null /\ metadata.appliedFiles # <<>>
                  THEN <<"**Files:** "
                         \o SummarizeFileActions(metadata.appliedFiles)>>
                  ELSE <<>>))

RECURSIVE RecentSections(_, _, _)
RecentSections(recentInteractions, index, t) ==
  IF index >= Len(recentInteractions) THEN <<>>
  ELSE InteractionSections(recentInteractions[index + 1],
                           Len(recentInteractions) - index, t)
       \o RecentSections(recentInteractions, index + 1, t)

\* a roll-up line of the session summary: the last five entries and how many
\* more there are
RollUp(label, list) ==
  label \o Join(SliceLast(list, 5), ", ")
  \o (IF Len(list) > 5 THEN " (+" \o ToString(Len(list) - 5) \o " more)"
      ELSE "")

SummarySections(summary) ==
  IF summary = Null THEN <<>>
  ELSE <<"\n### Session Summary:">>
       \o (IF summary.filesCreated # <<>>
           THEN <<RollUp("**Created files:** ", summary.filesCreated)>>
           ELSE <<>>)
       \o (IF summary.filesModified # <<>>
           THEN <<RollUp("**Modified files:** ", summary.filesModified)>>
           ELSE <<>>)
       \o (IF summary.componentsCreated # <<>>
           THEN <<RollUp("**Components created:** ",
                         summary.componentsCreated)>>
           ELSE <<>>)
       \o (IF summary.packagesAdded # <<>>
           THEN <<"**Packages added:** " \o Join(summary.packagesAdded, ", ")>>
           ELSE <<>>)

PreferenceSections(userPrefs) ==
  IF userPrefs.commonPatterns = <<>> THEN <<>>
  ELSE << "\n### User Patterns:",
          "**Edit style:** " \o userPrefs.preferredEditStyle,
          "**Common requests:** "
            \o Join(SliceFirst(userPrefs.commonPatterns, 3), ", ") >>

MajorChangeSections(majorChanges, t) ==
  LET recentChanges == SliceLast(majorChanges, 2)
  IN IF recentChanges = <<>> THEN <<>>
     ELSE <<"\n### Recent Major Changes:">>
          \o [i \in 1..Len(recentChanges) |->
                "- " \o recentChanges[i].description \o " ("
                \o GetTimeAgo(recentChanges[i].timestamp, t) \o ")"]

\* sections, as they stand before the join
Sections(conversationState, t) ==
  LET context == conversationState.context
      recentInteractions == GetRecentInteractions(context.messages, 5)
      totalInteractions ==
        IF context.sessionSummary # Null
           /\ context.sessionSummary.totalInteractions # 0
        THEN context.sessionSummary.totalInteractions
        ELSE Len(context.messages)
  IN << "## @@ CONVERSATION MEMORY",
        "Session started: " \o ToLocaleTimeString(conversationState.startedAt),
        "Total interactions: " \o ToString(totalInteractions) >>
     \o (IF recentInteractions # <<>>
         THEN <<"\n### Recent Conversation:">>
              \o RecentSections(recentInteractions, 0, t)
         ELSE <<>>)
     \o SummarySections(context.sessionSummary)
     \o PreferenceSections(AnalyzeUserPreferences(context.messages))
     \o (IF context.currentTopic # ""
         THEN <<"\n### Current Focus: " \o context.currentTopic>> ELSE <<>>)
     \o MajorChangeSections(context.projectEvolution.majorChanges, t)

\* the digest before its length is limited: sections.join('\n')
ConversationDigest(conversationState, t) ==
  Join(Sections(conversationState, t), "\n")

\* the notice that follows a digest that was cut
TruncationNotice == "\n[Memory truncated to prevent context overflow]"

\* mutant: a digest of exactly 2000 characters is marked as cut too
LimitLengthFromLimit(digest) ==
  IF Len(digest) >= MemoryLimit
  THEN Substring0(digest, MemoryLimit) \o TruncationNotice
  ELSE digest

\* "Limit total length to prevent context overflow"
LimitLength(digest) ==
  IF Len(digest) > MemoryLimit
  THEN Substring0(digest, MemoryLimit) \o TruncationNotice
  ELSE digest

BuildConversationHistoryPrompt(conversationState, t) ==
  IF conversationState = Null \/ Len(conversationState.context.messages) <= 1
  THEN ""
  ELSE LimitLength(ConversationDigest(conversationState, t))

(***************************************************************************)
(* The search executor (executeSearchPlan, selectTargetFile of             *)
(* @/lib/file-search-executor, imported at route.ts 8).  Its code is not   *)
(* among the sources; it is modelled from section 4.5 of the specification.*)
(* A search plan is                                                        *)
(*   [ editType, searchTerms, regexPatterns, fileTypesToSearch,            *)
(*     fallbackSearch: Null or [terms, patterns] ];                        *)
(* a regular expression is taken from the class literal(.*literal) and     *)
(* given by its one or two literal pieces; fileContents is a sequence of   *)
(* [path, content] in Object.entries order.                                *)
(***************************************************************************)
\* a SearchResult
SearchResult(filePath, lineNumber, lineContent, matched, score) ==
  [ filePath |-> filePath, lineNumber |-> lineNumber,
    lineContent |-> lineContent, matched |-> matched, score |-> score,
    reason |-> "Found \"" \o matched \o "\"" ]

\* step 1: the files whose path carries one of the plan's file types
CandidateFiles(fileContents, fileTypes) ==
  SelectSeq(fileContents,
            LAMBDA f : \E i \in 1..Len(fileTypes) : EndsWith(f.path, fileTypes[i]))

\* step 2, literal terms: the score of a line for a term (0: no match); a
\* full-line match scores highest, a substring match lower
TermScore(line, term) ==
  IF term = "" \/ ~StringIncludes(ToLowerCase(line), ToLowerCase(term)) THEN 0
  ELSE IF ToLowerCase(line) = ToLowerCase(term) THEN 100
  ELSE 50

\* the positions (1-based) at which piece starts in line
StartsOf(line, piece) ==
  {i \in 1..(Len(line) - Len(piece) + 1) :
     SubSeq(line, i, i + Len(piece) - 1) = piece}

\* step 2, patterns: the length of the match of the pattern in the line
\* (0: no match): from the leftmost start of the first piece to the rightmost
\* end of the last
MatchSpan(line, pieces) ==
  LET first == StartsOf(line, pieces[1])
      last == StartsOf(line, pieces[Len(pieces)])
      pairs == {<<i, j>> \in first \X last :
                  Len(pieces) = 1 \/ i + Len(pieces[1]) <= j}
  IN IF pieces[1] = "" \/ pieces[Len(pieces)] = "" \/ pairs = {} THEN 0
     ELSE LET from == CHOOSE i \in {p[1] : p \in pairs} :
                        \A p \in pairs : i <= p[1]
              to == CHOOSE j \in {p[2] : p \in pairs} :
                      \A p \in pairs : p[2] <= j
          IN to + Len(pieces[Len(pieces)]) - from

\* the score of a pattern match: the tighter the match, the higher
PatternScore(line, pieces) == (MatchSpan(line, pieces) * 100) \div Max(Len(line), 1)

\* the results of one line: a result per matching term, then per matching
\* pattern
LineResults(path, lineNumber, line, terms, patterns) ==
  LET hitTerms == SelectSeq(terms, LAMBDA term : TermScore(line, term) > 0)
      hitPatterns ==
        SelectSeq(patterns, LAMBDA pieces : MatchSpan(line, pieces) > 0)
  IN [i \in 1..Len(hitTerms) |->
        SearchResult(path, lineNumber, line, hitTerms[i],
                     TermScore(line, hitTerms[i]))]
     \o [i \in 1..Len(hitPatterns) |->
           SearchResult(path, lineNumber, line, Join(hitPatterns[i], ".*"),
                        PatternScore(line, hitPatterns[i]))]

\* the results of the lines of a file from line number lineNumber on
RECURSIVE FileResults(_, _, _, _, _)
FileResults(path, lines, lineNumber, terms, patterns) ==
  IF lineNumber > Len(lines) THEN <<>>
  ELSE LineResults(path, lineNumber, lines[lineNumber], terms, patterns)
       \o FileResults(path, lines, lineNumber + 1, terms, patterns)

\* steps 1-2 for the given terms and patterns
RECURSIVE SearchFiles(_, _, _)
SearchFiles(files, terms, patterns) ==
  IF files = <<>> THEN <<>>
  ELSE FileResults(Head(files).path, Split(Head(files).content, "\n"), 1,
                   terms, patterns)
       \o SearchFiles(Tail(files), terms, patterns)

\* mutant: the fallback search is run whatever the primary search found
ExecuteWithFallbackAlways(searchPlan, fileContents) ==
  LET files == CandidateFiles(fileContents, searchPlan.fileTypesToSearch)
      primary == SearchFiles(files, searchPlan.searchTerms,
                             searchPlan.regexPatterns)
      results ==
        IF searchPlan.fallbackSearch # Null
        THEN primary \o SearchFiles(files, searchPlan.fallbackSearch.terms,
                                    searchPlan.fallbackSearch.patterns)
        ELSE primary
  IN [success |-> TRUE, results |-> results]

\* executeSearchPlan: step 3 repeats the search with the fallback when the
\* primary search found nothing and a fallback is present
ExecuteSearchPlan(searchPlan, fileContents) ==
  LET files == CandidateFiles(fileContents, searchPlan.fileTypesToSearch)
      primary == SearchFiles(files, searchPlan.searchTerms,
                             searchPlan.regexPatterns)
      results ==
        IF primary = <<>> /\ searchPlan.fallbackSearch # Null
        THEN SearchFiles(files, searchPlan.fallbackSearch.terms,
                         searchPlan.fallbackSearch.patterns)
        ELSE primary
  IN [success |-> TRUE, results |-> results]

\* the code unit of a character, for the characters of the paths used
CodeOf(c) ==
  LET ascii == " !\"#$%&'()*+,-./0123456789:;<=>?@ABCDEFGHIJKLMNOPQRSTUVWXYZ[\\]^_ abcdefghijklmnopqrstuvwxyz{|}~"
  IN CHOOSE i \in 1..Len(ascii) :
       /\ CharAt(ascii, i) = c
       /\ \A j \in 1..(i - 1) : CharAt(ascii, j) # c

\* a stands before b in lexical order
StringLess(a, b) ==
  \E i \in 1..(Min(Len(a), Len(b)) + 1) :
    /\ SubSeq(a, 1, i - 1) = SubSeq(b, 1, i - 1)
    /\ \/ i > Len(a) /\ i <= Len(b)
       \/ i <= Len(a) /\ i <= Len(b)
          /\ CodeOf(CharAt(a, i)) < CodeOf(CharAt(b, i))

\* the edit categories for which one point of the code is the target
SinglePointEditTypes ==
  {"UPDATE_STYLE", "FIX_ISSUE", "UPDATE_COMPONENT", "REMOVE_ELEMENT"}

\* a is a better target than b: higher score, then earlier line, then
\* lexically smaller path
BetterTarget(a, b) ==
  \/ a.score > b.score
  \/ a.score = b.score /\ a.lineNumber < b.lineNumber
  \/ a.score = b.score /\ a.lineNumber = b.lineNumber
     /\ StringLess(a.filePath, b.filePath)

\* mutant: the first of the highest-scoring results is the target
FirstBestTarget(results, editType) ==
  IF results = <<>> \/ editType \notin SinglePointEditTypes THEN Null
  ELSE Some(results[CHOOSE i \in 1..Len(results) :
                      /\ \A j \in 1..Len(results) :
                           results[j].score <= results[i].score
                      /\ \A j \in 1..(i - 1) :
                           results[j].score < results[i].score])

\* selectTargetFile (step 4): the best result for a single-point category,
\* absent for the broader ones and when there is no result
SelectTargetFile(results, editType) ==
  IF results = <<>> \/ editType \notin SinglePointEditTypes THEN Null
  ELSE Some(results[CHOOSE i \in 1..Len(results) :
                      /\ \A j \in 1..Len(results) :
                           ~BetterTarget(results[j], results[i])
                      /\ \A j \in 1..(i - 1) :
                           BetterTarget(results[i], results[j])])

(***************************************************************************)
(* selectFilesForEdit and buildSystemPrompt (part_001 15-44, 192-400,      *)
(* 405-419).  An EditIntent is                                             *)
(*   [ type, description, confidence, targetFiles, searchTerms ]           *)
(* with the confidence in hundredths, so that (confidence * 100).toFixed(0)*)
(* is its decimal numeral.  Here a FileInfo also carries `type' and        *)
(* `content', and a manifest `entryPoint' and `routes'.  A character       *)
(* outside ASCII is written "@" per UTF-16 unit and a backtick "'".        *)
(***************************************************************************)
\* String.prototype.replace with a string pattern: the first occurrence
ReplaceFirst(s, pattern, replacement) ==
  LET at == {i \in 1..(Len(s) - Len(pattern) + 1) :
               SubSeq(s, i, i + Len(pattern) - 1) = pattern}
  IN IF at = {} THEN s
     ELSE LET i == CHOOSE k \in at : \A j \in at : k <= j
          IN SubSeq(s, 1, i - 1) \o replacement
             \o SubSeq(s, i + Len(pattern), Len(s))

\* Array.prototype.sort without a comparator, on strings
RECURSIVE SortStrings(_)
SortStrings(arr) ==
  IF arr = <<>> THEN <<>>
  ELSE LET least == CHOOSE i \in 1..Len(arr) :
                      /\ \A j \in 1..Len(arr) : ~StringLess(arr[j], arr[i])
                      /\ \A j \in 1..(i - 1) : arr[j] # arr[i]
       IN <<arr[least]>>
          \o SortStrings(SubSeq(arr, 1, least - 1)
                         \o SubSeq(arr, least + 1, Len(arr)))

\* getEditExamplesPrompt and getComponentPatternPrompt (edit-examples): the
\* usage examples and the component patterns, each standing as its heading
EditExamplesPrompt == "## Edit Examples"
ComponentPatternPrompt(fileList) == "## Component Patterns\n" \o fileList

\* buildEditInstructions: the table, and UPDATE_COMPONENT's entry for a
\* category it lacks
SurgicalEditInstructions ==
  "## SURGICAL EDIT INSTRUCTIONS\n- You MUST preserve 99% of the original code\n- ONLY edit the specific component(s) mentioned\n- Make ONLY the minimal change requested\n- DO NOT rewrite or refactor unless explicitly asked\n- DO NOT remove any existing code unless explicitly asked\n- DO NOT change formatting or structure\n- Preserve all imports and exports\n- Maintain the existing code style\n- Return the COMPLETE file with the surgical change applied\n- Think of yourself as a surgeon making a precise incision, not an artist repainting"

\* mutant: a category without an entry gets no instructions
BuildEditInstructionsNoFallback(editType) ==
  CASE editType = "UPDATE_COMPONENT" -> SurgicalEditInstructions
    [] editType = "ADD_FEATURE" ->
         "## Instructions\n- Create new components in appropriate directories\n- IMPORTANT: Update parent components to import and use the new component\n- Update routing if adding new pages\n- Follow existing patterns and conventions\n- Add necessary styles to match existing design\n- Example workflow:\n  1. Create NewComponent.jsx\n  2. Import it in the parent: import NewComponent from './NewComponent'\n  3. Use it in the parent's render: <NewComponent />"
    [] editType = "FIX_ISSUE" ->
         "## Instructions\n- Identify and fix the specific issue\n- Test the fix doesn't break other functionality\n- Preserve existing behavior except for the bug\n- Add error handling if needed"
    [] editType = "UPDATE_STYLE" ->
         "## SURGICAL STYLE EDIT INSTRUCTIONS\n- Change ONLY the specific style/class mentioned\n- If user says \"change background to blue\", change ONLY the background class\n- DO NOT touch any other styles, classes, or attributes\n- DO NOT refactor or \"improve\" the styling\n- DO NOT change the component structure\n- Preserve ALL other classes and styles exactly as they are\n- Return the COMPLETE file with only the specific style change"
    [] editType = "REFACTOR" ->
         "## Instructions\n- Improve code quality without changing functionality\n- Follow project conventions\n- Maintain all existing features\n- Improve readability and maintainability"
    [] editType = "FULL_REBUILD" ->
         "## Instructions\n- You may rebuild the entire application\n- Keep the same core functionality\n- Improve upon the existing design\n- Use modern best practices"
    [] editType = "ADD_DEPENDENCY" ->
         "## Instructions\n- Update package.json with new dependency\n- Add necessary import statements\n- Configure the dependency if needed\n- Update any build configuration"
    [] OTHER -> ""

BuildEditInstructions(editType) ==
  CASE editType = "UPDATE_COMPONENT" -> SurgicalEditInstructions
    [] editType = "ADD_FEATURE" ->
         "## Instructions\n- Create new components in appropriate directories\n- IMPORTANT: Update parent components to import and use the new component\n- Update routing if adding new pages\n- Follow existing patterns and conventions\n- Add necessary styles to match existing design\n- Example workflow:\n  1. Create NewComponent.jsx\n  2. Import it in the parent: import NewComponent from './NewComponent'\n  3. Use it in the parent's render: <NewComponent />"
    [] editType = "FIX_ISSUE" ->
         "## Instructions\n- Identify and fix the specific issue\n- Test the fix doesn't break other functionality\n- Preserve existing behavior except for the bug\n- Add error handling if needed"
    [] editType = "UPDATE_STYLE" ->
         "## SURGICAL STYLE EDIT INSTRUCTIONS\n- Change ONLY the specific style/class mentioned\n- If user says \"change background to blue\", change ONLY the background class\n- DO NOT touch any other styles, classes, or attributes\n- DO NOT refactor or \"improve\" the styling\n- DO NOT change the component structure\n- Preserve ALL other classes and styles exactly as they are\n- Return the COMPLETE file with only the specific style change"
    [] editType = "REFACTOR" ->
         "## Instructions\n- Improve code quality without changing functionality\n- Follow project conventions\n- Maintain all existing features\n- Improve readability and maintainability"
    [] editType = "FULL_REBUILD" ->
         "## Instructions\n- You may rebuild the entire application\n- Keep the same core functionality\n- Improve upon the existing design\n- Use modern best practices"
    [] editType = "ADD_DEPENDENCY" ->
         "## Instructions\n- Update package.json with new dependency\n- Add necessary import statements\n- Configure the dependency if needed\n- Update any build configuration"
    [] OTHER -> SurgicalEditInstructions

\* the project-relative form of a manifest key
RelativePath(path) == ReplaceFirst(path, "/home/user/app/", "")

\* buildFileStructureSection
BuildFileStructureSection(manifest) ==
  LET relative == [i \in 1..Len(manifest.keys) |-> RelativePath(manifest.keys[i])]
      allFiles ==
        SortStrings(SelectSeq(relative,
                              LAMBDA p : ~StringIncludes(p, "node_modules")))
      componentKeys ==
        SelectSeq(manifest.keys,
                  LAMBDA p : manifest.files[p].type \in {"component", "page"})
      componentLine(p) ==
        LET info == manifest.files[p]
            name == IF info.componentInfo # Null /\ info.componentInfo.name # ""
                    THEN info.componentInfo.name
                    ELSE Last(Split(p, "/"))
        IN "- " \o name \o " @ " \o RelativePath(p) \o " (" \o info.type \o ")"
      routeLines ==
        Join([i \in 1..Len(manifest.routes) |->
                "- " \o manifest.routes[i].path \o " @ "
                \o Last(Split(manifest.routes[i].component, "/"))], "\n")
  IN "## @@ EXISTING PROJECT FILES - DO NOT CREATE NEW FILES WITH SIMILAR NAMES @@\n\n"
     \o "### ALL PROJECT FILES (" \o ToString(Len(allFiles)) \o " files)\n"
     \o "'''\n" \o Join(allFiles, "\n") \o "\n'''\n\n"
     \o "### Component Files (USE THESE EXACT NAMES)\n"
     \o Join([i \in 1..Len(componentKeys) |-> componentLine(componentKeys[i])], "\n")
     \o "\n\n### CRITICAL: Component Relationships\n**ALWAYS CHECK App.jsx FIRST** to understand what components exist and how they're imported!\n\nCommon component overlaps to watch for:\n- \"nav\" or \"navigation\" @ Often INSIDE Header.jsx, not a separate file\n- \"menu\" @ Usually part of Header/Nav, not separate\n- \"logo\" @ Typically in Header, not standalone\n\nWhen user says \"nav\" or \"navigation\":\n1. First check if Header.jsx exists\n2. Look inside Header.jsx for navigation elements\n3. Only create Nav.jsx if navigation doesn't exist anywhere\n\n"
     \o "Entry Point: " \o manifest.entryPoint \o "\n\n### Routes\n"
     \o (IF routeLines = "" THEN "No routes detected" ELSE routeLines)

\* the lines buildComponentRelationships pushes for one file
RelationshipLines(file, manifest) ==
  IF file \notin DOMAIN manifest.files
     \/ manifest.files[file].componentInfo = Null THEN <<>>
  ELSE LET info == manifest.files[file].componentInfo
       IN IF info.name \notin DOMAIN manifest.componentTree THEN <<>>
          ELSE LET treeNode == manifest.componentTree[info.name]
               IN <<"\n### " \o info.name>>
                  \o (IF Len(treeNode.imports) > 0
                      THEN <<"Imports: " \o Join(treeNode.imports, ", ")>>
                      ELSE <<>>)
                  \o (IF Len(treeNode.importedBy) > 0
                      THEN <<"Used by: " \o Join(treeNode.importedBy, ", ")>>
                      ELSE <<>>)
                  \o (IF Len(info.childComponents) > 0
                      THEN <<"Renders: " \o Join(info.childComponents, ", ")>>
                      ELSE <<>>)

\* buildComponentRelationships
RECURSIVE RelationshipsOf(_, _)
RelationshipsOf(files, manifest) ==
  IF files = <<>> THEN <<>>
  ELSE RelationshipLines(Head(files), manifest)
       \o RelationshipsOf(Tail(files), manifest)

BuildComponentRelationships(files, manifest) ==
  Join(<<"## Component Relationships">> \o RelationshipsOf(files, manifest), "\n")

\* the line of one file in "Files to Edit" and "Context Files"
FileLine(f, manifest) ==
  "- " \o f
  \o (IF f \in DOMAIN manifest.files /\ manifest.files[f].componentInfo # Null
      THEN " (" \o manifest.files[f].componentInfo.name \o " component)"
      ELSE "")

FileLines(files, manifest) ==
  Join([i \in 1..Len(files) |-> FileLine(files[i], manifest)], "\n")

\* mutant: the component relationships are pushed before the instructions
SystemPromptRelationshipsFirst(userPrompt, editIntent, primaryFiles, contextFiles, manifest) ==
  (IF editIntent.type # "FULL_REBUILD" THEN <<EditExamplesPrompt>> ELSE <<>>)
  \o << "## Edit Intent\nType: " \o editIntent.type
        \o "\nDescription: " \o editIntent.description
        \o "\nConfidence: " \o ToString(editIntent.confidence) \o "%\n\n"
        \o "User Request: \"" \o userPrompt \o "\"",
        BuildFileStructureSection(manifest),
        ComponentPatternPrompt(
          Join([i \in 1..Len(manifest.keys) |-> RelativePath(manifest.keys[i])],
               "\n")) >>
  \o (IF Len(primaryFiles) > 0
      THEN <<"## Files to Edit\n" \o FileLines(primaryFiles, manifest)>>
      ELSE <<>>)
  \o (IF Len(contextFiles) > 0
      THEN <<"## Context Files (for reference only)\n"
             \o FileLines(contextFiles, manifest)>>
      ELSE <<>>)
  \o (IF editIntent.type \in {"UPDATE_COMPONENT", "ADD_FEATURE"}
      THEN <<BuildComponentRelationships(primaryFiles, manifest)>>
      ELSE <<>>)
  \o <<BuildEditInstructions(editIntent.type)>>

\* the sections of buildSystemPrompt, in the order of their push
SystemPromptSections(userPrompt, editIntent, primaryFiles, contextFiles, manifest) ==
  (IF editIntent.type # "FULL_REBUILD" THEN <<EditExamplesPrompt>> ELSE <<>>)
  \o << "## Edit Intent\nType: " \o editIntent.type
        \o "\nDescription: " \o editIntent.description
        \o "\nConfidence: " \o ToString(editIntent.confidence) \o "%\n\n"
        \o "User Request: \"" \o userPrompt \o "\"",
        BuildFileStructureSection(manifest),
        ComponentPatternPrompt(
          Join([i \in 1..Len(manifest.keys) |-> RelativePath(manifest.keys[i])],
               "\n")) >>
  \o (IF Len(primaryFiles) > 0
      THEN <<"## Files to Edit\n" \o FileLines(primaryFiles, manifest)>>
      ELSE <<>>)
  \o (IF Len(contextFiles) > 0
      THEN <<"## Context Files (for reference only)\n"
             \o FileLines(contextFiles, manifest)>>
      ELSE <<>>)
  \o <<BuildEditInstructions(editIntent.type)>>
  \o (IF editIntent.type \in {"UPDATE_COMPONENT", "ADD_FEATURE"}
      THEN <<BuildComponentRelationships(primaryFiles, manifest)>>
      ELSE <<>>)

BuildSystemPrompt(userPrompt, editIntent, primaryFiles, contextFiles, manifest) ==
  Join(SystemPromptSections(userPrompt, editIntent, primaryFiles, contextFiles,
                            manifest), "\n\n")

\* selectFilesForEdit; editIntent is what analyzeEditIntent(userPrompt,
\* manifest) returned
SelectFilesForEdit(userPrompt, manifest, editIntent) ==
  LET primaryFiles == editIntent.targetFiles
      allFiles == manifest.keys
      contextFiles == BuildLocalContext(primaryFiles, manifest, allFiles)
  IN [ primaryFiles |-> primaryFiles,
       contextFiles |-> contextFiles,
       systemPrompt |-> BuildSystemPrompt(userPrompt, editIntent, primaryFiles,
                                          contextFiles, manifest),
       editIntent |-> editIntent ]

\* getFileContents: the selected files the manifest has, as [path, content]
\* in insertion order
RECURSIVE GetFileContents(_, _)
GetFileContents(files, manifest) ==
  IF files = <<>> THEN <<>>
  ELSE LET rest == GetFileContents(Pop(files), manifest)
           file == Last(files)
       IN IF file \notin DOMAIN manifest.files THEN rest
          ELSE IF \E i \in 1..Len(rest) : rest[i].path = file
          THEN [i \in 1..Len(rest) |->
                  IF rest[i].path = file
                  THEN [path |-> file, content |-> manifest.files[file].content]
                  ELSE rest[i]]
          ELSE Append(rest, [path |-> file,
                             content |-> manifest.files[file].content])

(***************************************************************************)
(* State.                                                                  *)
(***************************************************************************)
VARIABLES
  conversationState,  \* global.conversationState (Null before the first request)
  now,                \* the reading of Date.now(), in milliseconds
  inFlight,           \* bag of the userMessages of the requests being streamed
  warm,               \* history: the length of the warm-up (see Init)
  calls,              \* history: updateConversationMemory calls since Init
  aiCalls,            \* history: those of them that carried an AI response
  lastPushed,         \* history: the messages the latest call pushed
  ticks,              \* exploration budget used (see MaxTicks)
  overlapped,         \* history: a request or a call began while a request
                      \* was being streamed
  failed,             \* history: a request ended without recording anything
  pairs,              \* history: the <<user message, assistant message>>
                      \* pushed together by one call
  args,               \* pure-function specifications: the arguments drawn
  result,             \* pure-function specifications: the value returned
  post                \* the locals of a generate request in edit mode (Null
                      \* while no such request is being followed)

vars == <<conversationState, now, inFlight, warm, calls, aiCalls, lastPushed,
          ticks, overlapped, failed, pairs, args, result, post>>

(***************************************************************************)
(* Inputs of the memory specification.                                     *)
(***************************************************************************)
DefaultPrompt == "update the header"
Prompts == {DefaultPrompt, "rebuild the hero section", ""}

\* what the model streamed back, as the <file path="..."> blocks the route
\* extracts: (path, trimmed content)
FileBlock(path, content) == [path |-> path, content |-> content]
DefaultGenerated == <<FileBlock("src/App.jsx", "export default App")>>
GeneratedOutputs ==
  { DefaultGenerated,
    <<FileBlock("src/components/Header.jsx", "v1"),
      FileBlock("src/components/Header.jsx", "v2")>> }

\* generatedCode as the route accumulates it from the stream
RECURSIVE GeneratedCode(_)
GeneratedCode(blocks) ==
  IF blocks = <<>> THEN ""
  ELSE "<file path=\"" \o Head(blocks).path \o "\">" \o Head(blocks).content
       \o "</file>" \o GeneratedCode(Tail(blocks))

\* route.ts 230: every extracted file is reported as created, without a
\* component name, and fileCount is the number of extracted files
RouteAiResponse(blocks) ==
  AiResponse(GeneratedCode(blocks),
             [i \in 1..Len(blocks) |->
                AppliedFile(blocks[i].path, "created",
                            Len(blocks[i].content), "")],
             "", Len(blocks), 0, <<>>)

\* AI responses handed to updateConversationMemory by a direct caller
DirectResponses ==
  { AiResponse("", <<AppliedFile("src/components/Hero.jsx", "created", 120, "Hero"),
                     AppliedFile("src/App.jsx", "modified", 90, "App"),
                     AppliedFile("src/App.jsx", "modified", 95, "App"),
                     AppliedFile("src/old.css", "deleted", 0, ""),
                     AppliedFile("src/components/Hero.jsx", "created", 130, "Hero"),
                     AppliedFile("src/sections/Hero.jsx", "created", 60, "Hero"),
                     AppliedFile("src/components/Header.jsx", "created", 80,
                                 "Header")>>,
               "Created the hero", 3, 1, <<"clsx", "clsx", "framer-motion">>) }

(***************************************************************************)
(* Actions of the memory specification.                                    *)
(***************************************************************************)
\* Date.now() advances by a millisecond
Tick ==
  /\ ticks < MaxTicks
  /\ ticks' = ticks + 1
  /\ now' = now + 1
  /\ UNCHANGED <<conversationState, inFlight, warm, calls, aiCalls, lastPushed,
                 overlapped, failed, pairs, args, result, post>>

\* mutant: the start of a request also writes lastUpdated
StartConversationTouching(state, t) ==
  LET s == IF state = Null THEN NewConversationState(t) ELSE state
  IN [s EXCEPT !.context = CleanUpOldMessages(@), !.lastUpdated = t]

\* route.ts 52-62: create the state on the first request, then clean up
StartConversation(state, t) ==
  LET s == IF state = Null THEN NewConversationState(t) ELSE state
  IN [s EXCEPT !.context = CleanUpOldMessages(@)]

\* POST, up to the point where the streaming work is detached (route.ts 45-85);
\* an empty prompt is answered 400 'Prompt is required' and nothing is streamed
PostStart ==
  /\ BagCardinality(inFlight) < MaxInFlight
  /\ calls + BagCardinality(inFlight) < MaxCalls
  /\ \E prompt \in Prompts :
       /\ conversationState' = StartConversation(conversationState, now)
       /\ inFlight' = IF prompt = "" THEN inFlight
                      ELSE inFlight (+) SetToBag({UserMessage(prompt, now)})
       /\ failed' = (failed \/ prompt = "")
  /\ overlapped' = (overlapped \/ inFlight # EmptyBag)
  /\ UNCHANGED <<now, warm, calls, aiCalls, lastPushed, ticks, pairs, args,
                 result, post>>

\* the stream completed: route.ts 228-231
PostComplete ==
  \E userMessage \in BagToSet(inFlight), blocks \in GeneratedOutputs :
    /\ conversationState' =
         UpdateConversationMemory(conversationState, userMessage,
                                  RouteAiResponse(blocks), now)
    /\ lastPushed' = PushedMessages(userMessage, RouteAiResponse(blocks), now)
    /\ inFlight' = inFlight (-) SetToBag({userMessage})
    /\ calls' = calls + 1
    /\ aiCalls' = aiCalls + 1
    /\ pairs' = pairs \cup {PushedMessages(userMessage, RouteAiResponse(blocks),
                                           now)}
    /\ UNCHANGED <<now, warm, ticks, overlapped, failed, args, result, post>>

\* the classifier, the model call or the stream threw: route.ts 233-238
PostFail ==
  \E userMessage \in BagToSet(inFlight) :
    /\ inFlight' = inFlight (-) SetToBag({userMessage})
    /\ failed' = TRUE
    /\ UNCHANGED <<conversationState, now, warm, calls, aiCalls, lastPushed, ticks,
                   overlapped, pairs, args, result, post>>

\* a caller of the exported updateConversationMemory other than the route
DirectUpdate ==
  /\ conversationState # Null
  /\ calls + BagCardinality(inFlight) < MaxCalls
  /\ \E prompt \in Prompts \ {""}, aiResponse \in DirectResponses \cup {Null} :
       /\ conversationState' =
            UpdateConversationMemory(conversationState, UserMessage(prompt, now),
                                     aiResponse, now)
       /\ lastPushed' = PushedMessages(UserMessage(prompt, now), aiResponse, now)
       /\ aiCalls' = IF aiResponse = Null THEN aiCalls ELSE aiCalls + 1
       /\ pairs' = IF aiResponse = Null THEN pairs
                   ELSE pairs \cup {PushedMessages(UserMessage(prompt, now),
                                                   aiResponse, now)}
  /\ calls' = calls + 1
  /\ overlapped' = (overlapped \/ inFlight # EmptyBag)
  /\ UNCHANGED <<now, inFlight, warm, ticks, failed, args, result, post>>

\* the state after n default requests, one per millisecond, served one after
\* the other
RECURSIVE WarmUp(_)
WarmUp(n) ==
  IF n = 0 THEN Null
  ELSE UpdateConversationMemory(StartConversation(WarmUp(n - 1), n),
                                UserMessage(DefaultPrompt, n),
                                RouteAiResponse(DefaultGenerated), n)

\* the lengths of the warm-up: a fresh process, and conversations whose log
\* is one or two messages below the clean-up threshold
WarmUps == {0, 9, 10}

Init ==
  \E n \in WarmUps :
    /\ conversationState = WarmUp(n)
    /\ now = n
    /\ inFlight = EmptyBag
    /\ warm = n
    /\ calls = 0
    /\ aiCalls = 0
    /\ lastPushed = IF n = 0 THEN <<>>
                    ELSE PushedMessages(UserMessage(DefaultPrompt, n),
                                        RouteAiResponse(DefaultGenerated), n)
    /\ ticks = 0
    /\ overlapped = FALSE
    /\ failed = FALSE
    /\ pairs = { PushedMessages(UserMessage(DefaultPrompt, k),
                                RouteAiResponse(DefaultGenerated), k) :
                   k \in 1..n }
    /\ args = Null
    /\ result = Pending
    /\ post = Null

Next ==
  \/ Tick
  \/ PostStart
  \/ PostComplete
  \/ PostFail
  \/ DirectUpdate

Spec == Init /\ [][Next]_vars

(***************************************************************************)
(* Properties of the conversation memory store.                            *)
(***************************************************************************)
Messages == conversationState.context.messages
Summary == conversationState.context.sessionSummary

IsPrefix(a, b) == Len(a) <= Len(b) /\ SubSeq(b, 1, Len(a)) = a

\* the summary the warm-up left behind
InitialSummary ==
  IF warm = 0 THEN EmptySessionSummary
  ELSE WarmUp(warm).context.sessionSummary

\* a step that is one call of updateConversationMemory
IsUpdateStep == calls' = calls + 1

\* C1: every call of updateConversationMemory leaves the log equal to the old
\* log followed by the pushed messages when that has at most 20 messages, and
\* otherwise equal to its last 15 messages, in their order; so the log has at
\* most 15 messages after a call that crossed the threshold.
C1_EvictionKeepsLast15 ==
  [][ IsUpdateStep =>
        LET appended == Messages \o lastPushed'
            after == conversationState'.context.messages
        IN IF Len(appended) > 20
           THEN /\ Len(after) = 15
                /\ \A i \in 1..15 : after[i] = appended[Len(appended) - 15 + i]
           ELSE after = appended ]_vars

\* C1 witness: a call has just crossed the threshold and the log holds the 15
\* most recent messages, the pushed ones last
C1_Witness ==
  /\ conversationState # Null
  /\ calls > 0
  /\ Len(Messages) = 15
  /\ SliceLast(Messages, Len(lastPushed)) = lastPushed

\* C2: totalInteractions is its initial value plus the number of calls that
\* carried an AI response, whatever was evicted from the log.
C2_TotalInteractionsCountsAiResults ==
  conversationState # Null =>
    Summary.totalInteractions = InitialSummary.totalInteractions + aiCalls

\* C2 witness: a call without a response and a call with one have been made,
\* and the log has been cut
C2_Witness ==
  /\ conversationState # Null
  /\ calls > aiCalls
  /\ aiCalls > 0
  /\ Len(Messages) = 15

\* C3: the summary never shrinks: each cumulative list only gains entries at
\* its end and totalInteractions never decreases; a step that makes no call
\* (the request-start clean-up included) and a call that carries no response
\* (whether or not it cuts the log) leave the summary unchanged.
C3_SummaryNeverShrinks ==
  [][ conversationState # Null =>
        LET before == Summary
            after == conversationState'.context.sessionSummary
        IN /\ IsPrefix(before.filesCreated, after.filesCreated)
           /\ IsPrefix(before.filesModified, after.filesModified)
           /\ IsPrefix(before.packagesAdded, after.packagesAdded)
           /\ IsPrefix(before.componentsCreated, after.componentsCreated)
           /\ after.totalInteractions >= before.totalInteractions
           /\ (~IsUpdateStep \/ Len(lastPushed') = 1) => after = before ]_vars

\* C3 witness: a call without a response has cut the log of a conversation
\* whose summary lists files
C3_Witness ==
  /\ conversationState # Null
  /\ calls > 0
  /\ Len(lastPushed) = 1
  /\ Len(Messages) = 15
  /\ Summary.filesCreated # <<>>

\* the request-start clean-up of the route never finds a log to cut
LogWithinThreshold ==
  conversationState # Null => Len(Messages) <= 20

\* no entry of the list stands in it twice
NoDuplicate(list) == \A i, j \in 1..Len(list) : list[i] = list[j] => i = j

\* C19: a step leaves none of filesCreated, filesModified, packagesAdded
\* and componentsCreated with an entry standing in it twice, and leaves the
\* entries it found where they were: each list before the step is a prefix
\* of the list after it
C19_SummaryListsWithoutDuplicates ==
  [][ (conversationState' # Null
         /\ conversationState'.context.sessionSummary # Null) =>
        LET after == conversationState'.context.sessionSummary
            grown(list(_)) ==
              /\ NoDuplicate(list(after))
              /\ (conversationState # Null /\ Summary # Null)
                   => IsPrefix(list(Summary), list(after))
        IN /\ grown(LAMBDA s : s.filesCreated)
           /\ grown(LAMBDA s : s.filesModified)
           /\ grown(LAMBDA s : s.packagesAdded)
           /\ grown(LAMBDA s : s.componentsCreated) ]_vars

\* C19 witness: the AI result that names Hero.jsx, App.jsx and clsx twice
\* was recorded twice, and each of them stands in its list once
C19_Witness ==
  /\ conversationState # Null
  /\ Summary # Null
  /\ aiCalls = 2
  /\ warm = 0
  /\ Summary.filesCreated = <<"src/components/Hero.jsx",
                              "src/sections/Hero.jsx",
                              "src/components/Header.jsx">>
  /\ Summary.filesModified = <<"src/App.jsx">>
  /\ Summary.packagesAdded = <<"clsx", "framer-motion">>
  /\ Summary.componentsCreated = <<"Hero", "Header">>

\* C20: the component name of every created file an assistant message of
\* the log reports is in componentsCreated
C20_ComponentOfEveryCreatedFileRecorded ==
  (conversationState # Null /\ Summary # Null) =>
    \A i \in 1..Len(Messages) :
      (Messages[i].role = "assistant" /\ Messages[i].metadata # Null) =>
        \A k \in 1..Len(Messages[i].metadata.appliedFiles) :
          LET file == Messages[i].metadata.appliedFiles[k]
          IN (file.action = "created" /\ file.componentName # "")
               => Includes(Summary.componentsCreated, file.componentName)

\* the messages of the log stand in the order of their timestamps
LogInTimeOrder ==
  \A i \in 1..(Len(Messages) - 1) :
    Messages[i].timestamp <= Messages[i + 1].timestamp

\* C26: as long as requests are served one after the other, the log is in
\* the order of its timestamps; a log out of that order is reached only by
\* requests served together, so it is a state no sequential execution
\* produces
C26_SequentialRequestsKeepTimeOrder ==
  (conversationState # Null /\ ~overlapped) => LogInTimeOrder

\* C26 witness: two requests were streamed together and both completed, the
\* one that began later first: the user message of the other stands in the
\* log behind an assistant message younger than itself
C26_Witness ==
  /\ conversationState # Null
  /\ overlapped
  /\ warm = 0
  /\ inFlight = EmptyBag
  /\ calls = 2 /\ aiCalls = 2
  /\ Len(Messages) = 4
  /\ Messages[3].role = "user"
  /\ Messages[3].timestamp < Messages[2].timestamp
  /\ Messages[3].timestamp < Messages[1].timestamp

\* C27: before and after every step, whichever requests are in flight, the
\* log holds at most 20 messages; a step that cuts the log (the log it
\* leaves does not begin with the log it found) leaves exactly 15 messages
C27_LogBoundedUnderInterleaving ==
  [][ /\ conversationState # Null => Len(Messages) <= 20
      /\ conversationState' # Null =>
           Len(conversationState'.context.messages) <= 20
      /\ (conversationState # Null
            /\ ~IsPrefix(Messages, conversationState'.context.messages))
           => Len(conversationState'.context.messages) = 15 ]_vars

\* C27 witness: two requests were streamed together on a log of 18
\* messages; the first to complete filled the log to 20, the second cut it
\* to 15
C27_Witness ==
  /\ conversationState # Null
  /\ warm = 9
  /\ overlapped
  /\ inFlight = EmptyBag
  /\ aiCalls = 2
  /\ Len(lastPushed) = 2
  /\ Len(Messages) = 15
  /\ SliceLast(Messages, 2) = lastPushed

\* C28: whichever requests are streamed together, every assistant message
\* of the log stands right behind the user message that the same call of
\* updateConversationMemory pushed with it; the only exception is an
\* assistant message at the head of the log, whose user message a clean-up
\* has cut
C28_AssistantFollowsItsUserMessage ==
  conversationState # Null =>
    \A i \in 1..Len(Messages) :
      Messages[i].role = "assistant" =>
        IF i = 1
        THEN \E pair \in pairs :
               pair[1].role = "user" /\ pair[2] = Messages[1]
        ELSE /\ Messages[i - 1].role = "user"
             /\ <<Messages[i - 1], Messages[i]>> \in pairs

\* C28 witness: on a log of 20 messages two requests with different prompts
\* were streamed together; the first to complete cut the log, which now
\* begins with an assistant message, and both pairs stand at its end
C28_Witness ==
  /\ conversationState # Null
  /\ warm = 10
  /\ overlapped
  /\ inFlight = EmptyBag
  /\ aiCalls = 2
  /\ Len(Messages) = 17
  /\ Messages[1].role = "assistant"
  /\ Messages[14].role = "user" /\ Messages[16].role = "user"
  /\ Messages[14].content # Messages[16].content
  /\ Messages[15].metadata.generatedCode # Messages[17].metadata.generatedCode

\* C29: a step that is not a call of updateConversationMemory (the start of
\* a request, the answer to an empty prompt, a failure before the end of
\* the stream, the passing of time) leaves the log, the summary and
\* lastUpdated as they were, and an empty log and summary when it creates
\* the state; the completion of a request pushes one user message, that of
\* a request in flight, and one assistant message, and adds one to
\* totalInteractions
C29_RecordsOnlyAfterTheStream ==
  [][ /\ calls' = calls =>
           IF conversationState = Null
           THEN \/ conversationState' = Null
                \/ /\ conversationState'.context.messages = <<>>
                   /\ conversationState'.context.sessionSummary
                        = EmptySessionSummary
           ELSE /\ conversationState'.context.messages = Messages
                /\ conversationState'.context.sessionSummary = Summary
                /\ conversationState'.lastUpdated
                     = conversationState.lastUpdated
      /\ (calls' = calls + 1 /\ inFlight' # inFlight) =>
           LET after == conversationState'.context.messages
               user == after[Len(after) - 1]
               assistant == after[Len(after)]
               appended == Messages \o <<user, assistant>>
           IN /\ Len(after) >= 2
              /\ user \in BagToSet(inFlight)
              /\ user.role = "user"
              /\ assistant.role = "assistant"
              /\ after = IF Len(appended) > 20 THEN SliceLast(appended, 15)
                         ELSE appended
              /\ conversationState'.context.sessionSummary.totalInteractions
                   = Summary.totalInteractions + 1 ]_vars

\* C29 witness: of two requests streamed together on a fresh process one
\* failed and one completed: the log holds one user and one assistant
\* message and one interaction is counted
C29_Witness ==
  /\ conversationState # Null
  /\ warm = 0
  /\ failed
  /\ overlapped
  /\ inFlight = EmptyBag
  /\ calls = 1
  /\ Len(Messages) = 2
  /\ Messages[1].role = "user" /\ Messages[2].role = "assistant"
  /\ Summary.totalInteractions = 1

(***************************************************************************)
(* The memory store at rest, for the specifications of the pure functions. *)
(***************************************************************************)
MemoryAtRest ==
  /\ conversationState = Null
  /\ now = 0
  /\ inFlight = EmptyBag
  /\ warm = 0
  /\ calls = 0
  /\ aiCalls = 0
  /\ lastPushed = <<>>
  /\ ticks = 0
  /\ overlapped = FALSE
  /\ failed = FALSE
  /\ pairs = {}
  /\ post = Null

memVars == <<conversationState, now, inFlight, warm, calls, aiCalls,
             lastPushed, ticks, overlapped, failed, pairs, post>>

(***************************************************************************)
(* Specification of resolveImportPath: the arguments are drawn in the      *)
(* initial state, the action makes the call.                               *)
(***************************************************************************)
\* sequences over S of length at most n
RECURSIVE SeqsUpTo(_, _)
SeqsUpTo(S, n) ==
  IF n = 0 THEN {<<>>}
  ELSE LET shorter == SeqsUpTo(S, n - 1)
       IN shorter \cup {Append(q, x) : q \in shorter, x \in S}

\* directories of the importing file: /, /a, /a/b, ...
DirNames == <<"a", "b", "c", "d">>
ImporterDirs == {SubSeq(DirNames, 1, n) : n \in 0..Min(MaxDirDepth, Len(DirNames))}

\* an importing file C.jsx in directory dir, as an absolute path or as a
\* project-relative key
ImporterPath(dir, absolute) ==
  (IF absolute THEN "/" ELSE "") \o Join(Append(dir, "C.jsx"), "/")

\* relative specifiers by their segments: a leading . or .., then names
RelativeParts ==
  {<<first>> \o rest : first \in {".", ".."},
                       rest \in SeqsUpTo({".", "..", "D", "E"}, MaxRelParts - 1)}

\* what follows the last segment: nothing, a slash, an extension
SpecifierEndings == {"", "/", ".jsx", ".ts", ".css"}

BareSpecifiers == {"react", "D", "a/b/D", "/a/b/D", ""}

ProjectPathLists ==
  { <<"/a/b/D.ts", "/a/b/D.jsx", "/a/E.tsx", "/a/b/D/index.js", "/a/b/E.css",
      "/D.js", "/E.jsx", "/a/D.js", "/a/b/D/E.ts">>,
    <<"/a/b/D.js", "/a/b/D.tsx", "/a/E.ts", "/a/E.js", "/a/b/index.ts",
      "/a/b/index.tsx", "/a/b/D.ts.ts", "/a/b/D", "/index.jsx">>,
    <<"a/b/D.jsx", "a/E.tsx", "D.js", "react", "a/b/D", "react.js">> }

ResolveInputs ==
  { [ fn |-> "resolveImportPath",
      dir |-> dir, absolute |-> absolute, parts |-> parts, ending |-> ending,
      fromFile |-> ImporterPath(dir, absolute),
      importSource |-> Join(parts, "/") \o ending,
      allFiles |-> files ] :
    dir \in ImporterDirs, absolute \in BOOLEAN, parts \in RelativeParts,
    ending \in SpecifierEndings, files \in ProjectPathLists }
  \cup
  { [ fn |-> "resolveImportPath",
      dir |-> dir, absolute |-> TRUE, parts |-> <<>>, ending |-> "",
      fromFile |-> ImporterPath(dir, TRUE),
      importSource |-> bare,
      allFiles |-> files ] :
    dir \in ImporterDirs, bare \in BareSpecifiers, files \in ProjectPathLists }

ResolveInit ==
  /\ MemoryAtRest
  /\ args \in ResolveInputs
  /\ result = Pending

CallResolveImportPath ==
  /\ result = Pending
  /\ result' = Returned(ResolveImportPath(args.fromFile, args.importSource,
                                          args.allFiles))
  /\ UNCHANGED <<args, memVars>>

ResolveNext == CallResolveImportPath

SpecResolve == ResolveInit /\ [][ResolveNext]_vars

\* the segments that remain when parts are applied to the directory dir from
\* left to right: .. removes the last segment, . changes nothing, a name is
\* added
RECURSIVE Walk(_, _, _)
Walk(dir, parts, i) ==
  IF i > Len(parts) THEN dir
  ELSE Walk(CASE parts[i] = ".." -> SubSeq(dir, 1, Max(Len(dir) - 1, 0))
              [] parts[i] = "." -> dir
              [] OTHER -> dir \o <<parts[i]>>,
            parts, i + 1)

\* "/" followed by the segments, "/"-separated
AbsolutePath(segments) ==
  IF segments = <<>> THEN "/"
  ELSE "/" \o segments[1]
       \o Join([i \in 1..Len(segments) - 1 |-> "/" \o segments[i + 1]], "")

\* the call is a file import: a relative specifier with no trailing slash
\* and no extension
IsPlainRelativeCall ==
  /\ args.parts # <<>>
  /\ args.ending = ""

\* C10: a relative specifier is resolved against the directory of fromFile
\* by applying its segments left to right (.. pops, . is a no-op, a name is
\* pushed): the result is absent or that path plus an accepted extension, and
\* it is present when such a path is in allPaths; "./D" from "/a/b/C.jsx"
\* with "/a/b/D.jsx" in allPaths gives "/a/b/D.jsx", and "../E" gives only
\* "/a/E" plus an extension.
C10_ResolvesSegmentsLeftToRight ==
  (result # Pending /\ IsPlainRelativeCall) =>
    LET resolved == result.returned
        target == AbsolutePath(Walk(args.dir, args.parts, 1))
        hits == {e \in {".jsx", ".tsx", ".js", ".ts"} :
                   Includes(args.allFiles, target \o e)}
    IN /\ resolved = Null <=> hits = {}
       /\ resolved # Null => \E e \in hits : resolved = Some(target \o e)
       /\ (args.fromFile = "/a/b/C.jsx" /\ args.importSource = "./D"
           /\ Includes(args.allFiles, "/a/b/D.jsx"))
            => resolved = Some("/a/b/D.jsx")
       /\ (args.fromFile = "/a/b/C.jsx" /\ args.importSource = "../E")
            => resolved \in {Null} \cup {Some("/a/E" \o e) :
                                           e \in {".jsx", ".tsx", ".js", ".ts"}}

\* C10 witness: "../E" from "/a/b/C.jsx" has been resolved to "/a/E.tsx"
C10_Witness ==
  /\ args # Null
  /\ args.fn = "resolveImportPath"
  /\ args.fromFile = "/a/b/C.jsx"
  /\ args.importSource = "../E"
  /\ result = Returned(Some("/a/E.tsx"))

\* C11: for a relative specifier without extension, the candidates are the
\* resolved path (followed by /index when the specifier ends with a slash)
\* with .jsx, .tsx, .js, .ts in that order; the result is the first candidate
\* that is in allPaths, wherever it stands in allPaths, and absent when none
\* is.
C11_FirstExtensionInOrderWins ==
  (result # Pending /\ args.fn = "resolveImportPath" /\ args.parts # <<>>
     /\ args.ending \in {"", "/"}) =>
    LET segments == Walk(args.dir, args.parts, 1)
        base == IF args.ending = ""
                THEN AbsolutePath(segments)
                ELSE (IF segments = <<>> THEN "" ELSE AbsolutePath(segments))
                     \o "/index"
        order == <<".jsx", ".tsx", ".js", ".ts">>
        present == {i \in 1..4 : Includes(args.allFiles, base \o order[i])}
    IN IF present = {}
       THEN result.returned = Null
       ELSE \E i \in present :
              /\ \A j \in present : i <= j
              /\ result.returned = Some(base \o order[i])

\* C11 witness: "./D" from "/a/b/C.jsx" has been resolved to "/a/b/D.jsx"
\* although "/a/b/D.ts" stands before it in allPaths
C11_Witness ==
  /\ args # Null
  /\ args.fn = "resolveImportPath"
  /\ args.fromFile = "/a/b/C.jsx"
  /\ args.importSource = "./D"
  /\ Len(args.allFiles) > 1
  /\ args.allFiles[1] = "/a/b/D.ts"
  /\ args.allFiles[2] = "/a/b/D.jsx"
  /\ result = Returned(Some("/a/b/D.jsx"))

\* C24: a specifier that does not begin with '.' resolves to absent,
\* whatever allPaths holds: also when allPaths holds the specifier itself or
\* the specifier followed by an accepted extension
C24_BareSpecifierIsAbsent ==
  (result # Pending /\ args.fn = "resolveImportPath"
     /\ args.importSource \in {"react", "D", "a/b/D", "/a/b/D", ""}) =>
    result.returned = Null

\* C24 witness: "/a/b/D" has been resolved to absent although "/a/b/D" is
\* in allPaths, and "react" although "react" and "react.js" are
C24_Witness ==
  /\ args # Null
  /\ args.fn = "resolveImportPath"
  /\ \/ /\ args.importSource = "/a/b/D"
        /\ Includes(args.allFiles, "/a/b/D")
        /\ Includes(args.allFiles, "/a/b/D.js")
     \/ /\ args.importSource = "react"
        /\ Includes(args.allFiles, "react")
        /\ Includes(args.allFiles, "react.js")
  /\ args.fromFile = "/C.jsx"
  /\ result = Returned(Null)

\* the first path of candidates that is in allFiles, absent when none is
FirstPresent(candidates, allFiles) ==
  LET present == {i \in 1..Len(candidates) : Includes(allFiles, candidates[i])}
  IN IF present = {} THEN Null
     ELSE Some(candidates[CHOOSE i \in present : \A j \in present : i <= j])

\* C25: the candidates of a relative specifier fall in three exclusive
\* cases. A specifier ending with a slash has only index.jsx, index.tsx,
\* index.js, index.ts of the resolved directory, in that order. A specifier
\* ending with an accepted extension has only the resolved path itself, and
\* resolves to absent when that exact path is missing. Any other specifier
\* has the resolved path followed by each accepted extension, never an
\* index file.
C25_ThreeExclusiveCandidateCases ==
  (result # Pending /\ args.fn = "resolveImportPath" /\ args.parts # <<>>) =>
    LET n == Len(args.parts)
        named == IF args.ending \in {"", "/"} THEN args.parts
                 ELSE SubSeq(args.parts, 1, n - 1)
                      \o <<args.parts[n] \o args.ending>>
        segments == Walk(args.dir, named, 1)
        target == AbsolutePath(segments)
        directory == IF segments = <<>> THEN "" ELSE target
        candidates ==
          CASE args.ending = "/" ->
                 << directory \o "/index.jsx", directory \o "/index.tsx",
                    directory \o "/index.js", directory \o "/index.ts" >>
            [] args.ending \in {".jsx", ".tsx", ".js", ".ts"} -> << target >>
            [] OTHER ->
                 << target \o ".jsx", target \o ".tsx", target \o ".js",
                    target \o ".ts" >>
    IN result.returned = FirstPresent(candidates, args.allFiles)

\* C25 witness: from "/a/b/C.jsx", "./D.ts" has been resolved to absent
\* although "/a/b/D.ts.ts" is in allPaths
C25_Witness ==
  /\ args # Null
  /\ args.fn = "resolveImportPath"
  /\ args.fromFile = "/a/b/C.jsx"
  /\ args.importSource = "./D.ts"
  /\ Includes(args.allFiles, "/a/b/D.ts.ts")
  /\ ~Includes(args.allFiles, "/a/b/D.ts")
  /\ result = Returned(Null)

\* C30: the result of resolveImportPath is absent or a path of allPaths
\* that begins with '/'; '..' segments beyond the root are ignored, so
\* "../../E" from "/a/C.jsx" is "/E" plus an extension; when no path of
\* allPaths begins with '/', every specifier resolves to absent
C30_AbsentOrAbsolutePathOfAllPaths ==
  (result # Pending /\ args.fn = "resolveImportPath") =>
    LET resolved == result.returned
        rooted == {i \in 1..Len(args.allFiles) :
                     SubSeq(args.allFiles[i], 1, 1) = "/"}
    IN /\ resolved # Null =>
            \E i \in rooted : resolved = Some(args.allFiles[i])
       /\ rooted = {} => resolved = Null
       /\ (args.fromFile = "/a/C.jsx" /\ args.importSource = "../../E"
           /\ Includes(args.allFiles, "/E.jsx"))
            => resolved = Some("/E.jsx")

\* C30 witness: "../../E" from "/a/C.jsx" has been resolved to "/E.jsx",
\* one '..' beyond the root
C30_Witness ==
  /\ args # Null
  /\ args.fn = "resolveImportPath"
  /\ args.fromFile = "/a/C.jsx"
  /\ args.importSource = "../../E"
  /\ result = Returned(Some("/E.jsx"))

(***************************************************************************)
(* Specification of buildLocalContext: the manifest and the primary files  *)
(* are drawn in the initial state, the action makes the call.              *)
(***************************************************************************)
Import(source, isLocal) == [source |-> source, isLocal |-> isLocal]
FileInfo(imports, componentName) ==
  [ imports |-> imports,
    componentInfo |-> IF componentName = "" THEN Null
                      ELSE [name |-> componentName] ]
TreeNode(file, imports, importedBy) ==
  [file |-> file, imports |-> imports, importedBy |-> importedBy]

\* App renders Header and Footer; Header and Nav import each other; Footer
\* imports through an alias, which only the component tree follows
ProjectManifest ==
  [ keys |-> <<"/src/App.jsx", "/src/components/Header.jsx",
               "/src/components/Footer.jsx", "/src/components/Nav.jsx",
               "/src/components/Logo.jsx", "/src/lib/utils.js",
               "/src/index.css", "/tailwind.config.js">>,
    files |->
      ("/src/App.jsx" :> FileInfo(<<Import("react", FALSE),
                                    Import("./components/Header", TRUE),
                                    Import("./components/Footer", TRUE),
                                    Import("./index.css", TRUE)>>, "App"))
      @@ ("/src/components/Header.jsx" :>
            FileInfo(<<Import("./Nav", TRUE), Import("../lib/utils", TRUE)>>,
                     "Header"))
      @@ ("/src/components/Footer.jsx" :>
            FileInfo(<<Import("@/components/Nav", TRUE),
                       Import("@/components/Logo", TRUE)>>, "Footer"))
      @@ ("/src/components/Nav.jsx" :>
            FileInfo(<<Import("./Logo", TRUE), Import("./Header.jsx", TRUE)>>,
                     "Nav"))
      @@ ("/src/components/Logo.jsx" :> FileInfo(<<>>, "Logo"))
      @@ ("/src/lib/utils.js" :> FileInfo(<<>>, ""))
      @@ ("/src/index.css" :> FileInfo(<<>>, ""))
      @@ ("/tailwind.config.js" :> FileInfo(<<>>, "")),
    componentTree |->
      ("App" :> TreeNode("/src/App.jsx", <<"Header", "Footer">>, <<>>))
      @@ ("Header" :> TreeNode("/src/components/Header.jsx", <<"Nav">>,
                               <<"App", "Nav">>))
      @@ ("Footer" :> TreeNode("/src/components/Footer.jsx",
                               <<"Nav", "Logo">>, <<"App", "Header">>))
      @@ ("Nav" :> TreeNode("/src/components/Nav.jsx", <<"Logo", "Header">>,
                            <<"Header", "Footer">>))
      @@ ("Logo" :> TreeNode("/src/components/Logo.jsx", <<>>,
                             <<"Nav", "Footer">>)) ]

\* a project without App.jsx, tailwind configuration or global stylesheet
BareManifest ==
  [ keys |-> <<"/src/main.jsx", "/src/components/Header.jsx",
               "/src/components/Nav.jsx", "/src/styles/main.css">>,
    files |->
      ("/src/main.jsx" :> FileInfo(<<Import("./components/Header", TRUE)>>,
                                   "Main"))
      @@ ("/src/components/Header.jsx" :>
            FileInfo(<<Import("./Nav", TRUE)>>, "Header"))
      @@ ("/src/components/Nav.jsx" :>
            FileInfo(<<Import("./Header", TRUE)>>, "Nav"))
      @@ ("/src/styles/main.css" :> FileInfo(<<>>, "")),
    componentTree |->
      ("Main" :> TreeNode("/src/main.jsx", <<"Header">>, <<>>))
      @@ ("Header" :> TreeNode("/src/components/Header.jsx", <<"Nav">>,
                               <<"Main", "Nav">>))
      @@ ("Nav" :> TreeNode("/src/components/Nav.jsx", <<"Header">>,
                            <<"Header">>)) ]

\* a manifest with gaps: names without a node, a node whose file is not a
\* key, a component without a node, imports that do not resolve, import
\* flags at odds with the specifier, two entry candidates
GappyManifest ==
  [ keys |-> <<"/src/pages/MyApp.jsx", "/src/App.tsx",
               "/src/components/Card.tsx", "/src/components/Card/index.ts",
               "/src/globals.css", "/tailwind.config.ts",
               "/src/components/List.tsx">>,
    files |->
      ("/src/pages/MyApp.jsx" :>
         FileInfo(<<Import("../components/Card/", TRUE),
                    Import("../components/Nowhere", TRUE)>>, "MyApp"))
      @@ ("/src/App.tsx" :>
            FileInfo(<<Import("./components/Card", FALSE),
                       Import("react", TRUE), Import("", TRUE),
                       Import("./components/List.tsx", TRUE)>>, "App"))
      @@ ("/src/components/Card.tsx" :>
            FileInfo(<<Import("./List", TRUE), Import("./Card/", TRUE)>>,
                     "Card"))
      @@ ("/src/components/Card/index.ts" :>
            FileInfo(<<Import("../Card", TRUE)>>, "Orphan"))
      @@ ("/src/globals.css" :> FileInfo(<<>>, ""))
      @@ ("/tailwind.config.ts" :> FileInfo(<<>>, ""))
      @@ ("/src/components/List.tsx" :> FileInfo(<<>>, "List")),
    componentTree |->
      ("MyApp" :> TreeNode("/src/pages/MyApp.jsx", <<"Ghost", "Card">>,
                           <<"Ghost">>))
      @@ ("App" :> TreeNode("/src/App.tsx", <<"Card", "List">>, <<>>))
      @@ ("Card" :> TreeNode("/src/components/Card.tsx", <<"List", "Gone">>,
                             <<"App", "MyApp", "Ghost">>))
      @@ ("Gone" :> TreeNode("/src/components/Gone.tsx", <<>>, <<"Card">>))
      @@ ("List" :> TreeNode("/src/components/List.tsx", <<>>,
                             <<"Card", "App">>)) ]

Manifests == {ProjectManifest, BareManifest, GappyManifest}

\* Array -> the set of its elements
Range(arr) == {arr[i] : i \in 1..Len(arr)}

\* the primary files drawn for a manifest: its keys and a path it lacks
PrimaryChoices(manifest) ==
  SeqsUpTo(Range(manifest.keys) \cup {"/src/Missing.jsx"}, MaxPrimary)

ContextInputs ==
  UNION { { [ fn |-> "buildLocalContext", primaryFiles |-> primaryFiles,
              manifest |-> manifest, allFiles |-> manifest.keys ] :
            primaryFiles \in PrimaryChoices(manifest) } :
          manifest \in Manifests }

ContextInit ==
  /\ MemoryAtRest
  /\ args \in ContextInputs
  /\ result = Pending

CallBuildLocalContext ==
  /\ result = Pending
  /\ result' = Returned(BuildLocalContext(args.primaryFiles, args.manifest,
                                          args.allFiles))
  /\ UNCHANGED <<args, memVars>>

ContextNext == CallBuildLocalContext

SpecContext == ContextInit /\ [][ContextNext]_vars

(***************************************************************************)
(* Properties of buildLocalContext.                                        *)
(***************************************************************************)
ContextReturned == result # Pending /\ args.fn = "buildLocalContext"

\* the first key that ends with one of the suffixes, as a set of at most one
FirstKeyEndingWith(suffixes) ==
  LET hits == {i \in 1..Len(args.allFiles) :
                 \E x \in suffixes : EndsWith(args.allFiles[i], x)}
  IN IF hits = {} THEN {}
     ELSE {args.allFiles[CHOOSE i \in hits : \A j \in hits : i <= j]}

\* entry component, theme configuration, global stylesheet: the candidates,
\* in that order
EssentialCandidates ==
  << FirstKeyEndingWith({"App.jsx", "App.tsx"}),
     FirstKeyEndingWith({"tailwind.config.js", "tailwind.config.ts"}),
     FirstKeyEndingWith({"index.css", "globals.css"}) >>

\* the files one primary file leads to, in the order they are met: its
\* resolved local imports, then the files of the components that import its
\* component, then the files of the components its component imports
ResolvedImports(primaryFile) ==
  IF primaryFile \notin DOMAIN args.manifest.files THEN <<>>
  ELSE LET imports == args.manifest.files[primaryFile].imports
           resolve(i) ==
             IF imports[i].isLocal /\ imports[i].source # ""
             THEN ResolveImportPath(primaryFile, imports[i].source,
                                    args.allFiles)
             ELSE Null
       IN [i \in 1..Len(imports) |-> resolve(i)]

NodeOf(primaryFile) ==
  IF primaryFile \notin DOMAIN args.manifest.files THEN Null
  ELSE LET info == args.manifest.files[primaryFile].componentInfo
       IN IF info = Null THEN Null
          ELSE IF info.name \notin DOMAIN args.manifest.componentTree THEN Null
          ELSE Some(args.manifest.componentTree[info.name])

FilesOfComponents(names) ==
  [i \in 1..Len(names) |->
     IF names[i] \in DOMAIN args.manifest.componentTree
     THEN Some(args.manifest.componentTree[names[i]].file)
     ELSE Null]

Neighbourhood(primaryFile) ==
  ResolvedImports(primaryFile)
  \o (IF NodeOf(primaryFile) = Null THEN <<>>
      ELSE FilesOfComponents(NodeOf(primaryFile).value.importedBy)
           \o FilesOfComponents(NodeOf(primaryFile).value.imports))

RECURSIVE Neighbourhoods(_)
Neighbourhoods(primaryFiles) ==
  IF primaryFiles = <<>> THEN <<>>
  ELSE Neighbourhood(Head(primaryFiles)) \o Neighbourhoods(Tail(primaryFiles))

\* C4: no returned path is one of the primary files.
C4_NoPrimaryFileReturned ==
  ContextReturned =>
    \A i \in 1..Len(result.returned) :
      \A j \in 1..Len(args.primaryFiles) :
        result.returned[i] # args.primaryFiles[j]

\* C4 witness: a context was returned for two primary files of which one is
\* the entry component and the other a component it imports and is imported by
C4_Witness ==
  /\ args # Null
  /\ ContextReturned
  /\ args.primaryFiles = <<"/src/components/Header.jsx", "/src/App.jsx">>
  /\ Len(result.returned) > 2

\* C5: the returned sequence has no path twice; it starts with the essential
\* files that are present and not primary, in the order entry component,
\* theme configuration, global stylesheet, and continues with the other
\* paths in the order they are first met while going through the primary
\* files (for each: imports, then importedBy, then imports of its node).
C5_EssentialFirstThenDiscoveryOrder ==
  ContextReturned =>
    LET out == result.returned
        met == Neighbourhoods(args.primaryFiles)
        essential == UNION {EssentialCandidates[k] : k \in 1..3}
                       \ Range(args.primaryFiles)
        nEss == Cardinality(essential)
        \* the positions of met that contribute a new path
        fresh == {i \in 1..Len(met) :
                    /\ met[i] # Null
                    /\ met[i].value \notin Range(args.primaryFiles)
                    /\ met[i].value \notin essential
                    /\ \A j \in 1..(i - 1) : met[j] # met[i]}
        rank(i) == Cardinality({j \in fresh : j <= i})
    IN /\ \A i, j \in 1..Len(out) : i # j => out[i] # out[j]
       /\ Len(out) = nEss + Cardinality(fresh)
       /\ \A i \in 1..nEss : out[i] \in essential
       /\ \A i, j \in 1..nEss :
            \A k, l \in 1..3 :
              (i < j /\ out[i] \in EssentialCandidates[k]
                     /\ out[j] \in EssentialCandidates[l]) => k < l
       /\ \A i \in fresh : out[nEss + rank(i)] = met[i].value

\* C5 witness: a context with all three essential files and files found
\* through imports, importedBy and the imports of the node, in that order
C5_Witness ==
  /\ args # Null
  /\ ContextReturned
  /\ args.primaryFiles = <<"/src/components/Footer.jsx">>
  /\ result.returned = <<"/src/App.jsx", "/tailwind.config.js",
                         "/src/index.css", "/src/components/Header.jsx",
                         "/src/components/Nav.jsx",
                         "/src/components/Logo.jsx">>

\* C6: every returned path is an essential file, a resolved local import of
\* a primary file, or the file of a component named in importedBy or imports
\* of the node of a primary file: nothing further away is returned.
C6_SingleHopClosure ==
  ContextReturned =>
    LET oneHop ==
          UNION { {m.value : m \in Range(Neighbourhood(args.primaryFiles[j]))
                                     \ {Null}} :
                  j \in 1..Len(args.primaryFiles) }
        essential == UNION {EssentialCandidates[k] : k \in 1..3}
    IN \A i \in 1..Len(result.returned) :
         result.returned[i] \in essential \cup oneHop

\* C6 witness: the entry component is primary; Nav and Logo, two and three
\* hops away through the Header/Nav cycle, are not returned
C6_Witness ==
  /\ args # Null
  /\ ContextReturned
  /\ args.manifest = ProjectManifest
  /\ args.primaryFiles = <<"/src/App.jsx">>
  /\ Includes(result.returned, "/src/components/Header.jsx")
  /\ ~Includes(result.returned, "/src/components/Nav.jsx")
  /\ ~Includes(result.returned, "/src/components/Logo.jsx")

RECURSIVE Repeat(_, _)
Repeat(s, n) ==
  IF n = 0 THEN ""
  ELSE IF n % 2 = 0 THEN LET half == Repeat(s, n \div 2) IN half \o half
  ELSE s \o Repeat(s, n - 1)

\* a text of n characters in which every position is told from its
\* neighbours
TextOfLength(n) == Substring0(Repeat("0123456789", (n \div 10) + 1), n)

PrimaryLengths == {0, 2001, 3000}
ContextLengths == {1999, 2000, 2001}

\* the k-th file of a list
PrimaryPaths == <<"/src/App.jsx", "/src/index.css", "/README", "/src/api.ts">>
ContextPaths == <<"/src/App.jsx", "/package.json", "/src/main.tsx", "/src/a.b">>

\* file lists of at most MaxFiles files with contents of the given lengths
FileLists(paths, lengths) ==
  { [i \in 1..Len(lens) |-> [path |-> paths[i],
                             content |-> TextOfLength(lens[i])]] :
    lens \in SeqsUpTo(lengths, Min(MaxFiles, Len(paths))) }

FormatInputs ==
  { [ fn |-> "formatFilesForAI", primaryFiles |-> pf, contextFiles |-> cf ] :
    pf \in FileLists(PrimaryPaths, PrimaryLengths),
    cf \in FileLists(ContextPaths, ContextLengths) }

FormatInit ==
  /\ MemoryAtRest
  /\ args \in FormatInputs
  /\ result = Pending

CallFormatFilesForAI ==
  /\ result = Pending
  /\ result' = Returned(FormatFilesForAI(args.primaryFiles, args.contextFiles))
  /\ UNCHANGED <<args, memVars>>

FormatNext == CallFormatFilesForAI

SpecFormat == FormatInit /\ [][FormatNext]_vars

\* piece occurs in text
Occurs(text, piece) ==
  \E i \in 1..(Len(text) - Len(piece) + 1) :
    /\ CharAt(text, i) = CharAt(piece, 1)
    /\ SubSeq(text, i, i + Len(piece) - 1) = piece

\* the language tag of the code fence of each path drawn
FenceTag ==
  ("/src/App.jsx" :> "javascript") @@ ("/src/index.css" :> "css")
  @@ ("/README" :> "/README") @@ ("/src/api.ts" :> "typescript")
  @@ ("/package.json" :> "json") @@ ("/src/main.tsx" :> "typescript")
  @@ ("/src/a.b" :> "b")

\* a fenced block holding exactly body
Fenced(path, body) ==
  "'''" \o FenceTag[path] \o "\n" \o body \o "\n'''\n"

\* C9: the output holds the body of every primary file in full, whatever its
\* length, and the body of a context file unchanged when it has at most 2000
\* characters, otherwise its first 2000 characters followed by the
\* truncation marker.
C9_PrimaryInFullContextCutAt2000 ==
  (result # Pending /\ args.fn = "formatFilesForAI") =>
    /\ \A i \in 1..Len(args.primaryFiles) :
         LET f == args.primaryFiles[i]
         IN Occurs(result.returned,
                   "### " \o f.path \o "\n**IMPORTANT: This is the COMPLETE file. Your output must include EVERY line shown below, modified only where necessary.**\n"
                   \o Fenced(f.path, f.content))
    /\ \A i \in 1..Len(args.contextFiles) :
         LET f == args.contextFiles[i]
         IN Occurs(result.returned,
                   "### " \o f.path \o " (Reference Only)\n"
                   \o Fenced(f.path,
                        IF Len(f.content) <= 2000 THEN f.content
                        ELSE SubSeq(f.content, 1, 2000)
                             \o "\n// ... [truncated for context length]"))

\* C9 witness: a primary file of 3000 characters and context files of 2000
\* and 2001 characters have been formatted
C9_Witness ==
  /\ args # Null
  /\ args.fn = "formatFilesForAI"
  /\ result # Pending
  /\ Len(args.primaryFiles) > 0
  /\ Len(args.primaryFiles[1].content) = 3000
  /\ Len(args.contextFiles) = 2
  /\ Len(args.contextFiles[1].content) = 2000
  /\ Len(args.contextFiles[2].content) = 2001

(***************************************************************************)
(* Specification of buildConversationHistoryPrompt: the conversation state *)
(* and the reading of the clock are drawn in the initial state, the action *)
(* makes the call.                                                         *)
(***************************************************************************)
\* six created components under a directory name of 400 characters
LongPathFiles ==
  [i \in 1..6 |->
     AppliedFile("src/" \o TextOfLength(400) \o "/Widget" \o ToString(i)
                 \o ".jsx", "created", 10, "Widget" \o ToString(i))]

\* six created components, six modified files and seven packages
ManyFiles ==
  [i \in 1..6 |->
     AppliedFile("src/charts/Chart" \o ToString(i) \o ".jsx", "created", 10,
                 "Chart" \o ToString(i))]
  \o [i \in 1..6 |->
        AppliedFile("src/pages/Page" \o ToString(i) \o ".jsx", "modified", 10, "")]

ManyPackages == <<"recharts", "d3", "zod", "clsx", "swr", "axios", "dayjs">>

\* a request and what was handed to updateConversationMemory with it
Exchange(prompt, aiResponse) == [prompt |-> prompt, aiResponse |-> aiResponse]

Exchanges ==
  { Exchange(DefaultPrompt, RouteAiResponse(DefaultGenerated)),
    Exchange("Rebuild the hero section, with an animation", Null),
    Exchange("Please fix   the button colors of every card on the pricing page and then remove footer.links",
             CHOOSE aiResponse \in DirectResponses : TRUE),
    Exchange("add widgets", AiResponse("", LongPathFiles, "", 6, 6, <<>>)),
    Exchange("add charts", AiResponse("", ManyFiles, "Added charts", 12, 6,
                                      ManyPackages)) }

\* the conversation after the exchanges, one per second from 13:53:20
RECURSIVE ConversationOf(_)
ConversationOf(exchanges) ==
  IF exchanges = <<>> THEN NewConversationState(50000000)
  ELSE LET t == 50000000 + 1000 * Len(exchanges)
           last == Last(exchanges)
       IN UpdateConversationMemory(ConversationOf(Pop(exchanges)),
                                   UserMessage(last.prompt, t),
                                   last.aiResponse, t)

\* a state put together by hand: no session summary, an assistant message
\* without metadata and one in front of the first user message
HandMadeConversation ==
  [ NewConversationState(50000000) EXCEPT
      !.context.sessionSummary = Null,
      !.context.messages =
        << [ id |-> "ai-0", role |-> "assistant", content |-> "Welcome",
             timestamp |-> 50000000, metadata |-> Null ],
           [ id |-> "msg-1", role |-> "user", content |-> "Change header style",
             timestamp |-> 50001000, metadata |-> Null ],
           [ id |-> "ai-1", role |-> "assistant", content |-> "Done",
             timestamp |-> 50002000, metadata |-> Null ],
           UserMessage("REDESIGN everything", 50003000) >> ]

ConversationStates ==
  {ConversationOf(exchanges) : exchanges \in SeqsUpTo(Exchanges, MaxExchanges)}
  \cup {WarmUp(10), HandMadeConversation}

\* the major-change logs drawn: none, and three entries
MajorChangeLogs ==
  { <<>>,
    << [ timestamp |-> 50000000, description |-> "Initial scaffold",
         filesAffected |-> <<"src/App.jsx">> ],
       [ timestamp |-> 50001000, description |-> "Added the hero section",
         filesAffected |-> <<>> ],
       [ timestamp |-> 50002000, description |-> "Moved to " \o TextOfLength(90),
         filesAffected |-> <<"src/index.css">> ] >> }

\* the readings of the clock at the call: the start of the session, five
\* minutes and two days later
ClockReadings == {50000000, 50300000, 222800000}

\* the digest lengths the current topic is chosen to reach
DigestLengths == {2000, 2001}

WithTopic(state, currentTopic) ==
  [state EXCEPT !.context.currentTopic = currentTopic]

\* a topic that brings the digest of the state to n characters (a short one
\* when the digest is longer than that without it)
TopicForLength(state, t, n) ==
  LET short == Len(ConversationDigest(WithTopic(state, "x"), t))
  IN IF short <= n THEN TextOfLength(n - short + 1) ELSE "x"

DigestInputs ==
  { [ fn |-> "buildConversationHistoryPrompt", conversationState |-> Null,
      now |-> t ] : t \in ClockReadings }
  \cup
  UNION { { [ fn |-> "buildConversationHistoryPrompt",
              conversationState |-> WithTopic(state, currentTopic),
              now |-> t ] :
            currentTopic \in {"", "hero section"}
                               \cup {TopicForLength(state, t, n) :
                                       n \in DigestLengths} } :
          state \in { [s EXCEPT !.context.projectEvolution.majorChanges = log] :
                      s \in ConversationStates, log \in MajorChangeLogs },
          t \in ClockReadings }

DigestInit ==
  /\ MemoryAtRest
  /\ args \in DigestInputs
  /\ result = Pending

CallBuildConversationHistoryPrompt ==
  /\ result = Pending
  /\ result' = Returned(BuildConversationHistoryPrompt(args.conversationState,
                                                       args.now))
  /\ UNCHANGED <<args, memVars>>

DigestNext == CallBuildConversationHistoryPrompt

SpecDigest == DigestInit /\ [][DigestNext]_vars

\* C8: the text returned has at most 2000 characters plus the length of the
\* truncation notice; it is empty for no state and for a log of at most one
\* message; otherwise it is the digest itself when that has at most 2000
\* characters, and its first 2000 characters followed by the notice when it
\* has more.
C8_DigestCappedAt2000 ==
  (result # Pending /\ args.fn = "buildConversationHistoryPrompt") =>
    LET notice == "\n[Memory truncated to prevent context overflow]"
        out == result.returned
    IN /\ Len(out) <= 2000 + Len(notice)
       /\ IF args.conversationState = Null
          THEN out = ""
          ELSE IF Len(args.conversationState.context.messages) <= 1
          THEN out = ""
          ELSE LET digest ==
                     ConversationDigest(args.conversationState, args.now)
               IN IF Len(digest) > 2000
                  THEN out = SubSeq(digest, 1, 2000) \o notice
                  ELSE out = digest

\* C8 witness: a digest of 2001 characters was cut to 2000 and the notice
\* follows them
C8_Witness ==
  /\ args # Null
  /\ args.fn = "buildConversationHistoryPrompt"
  /\ result # Pending
  /\ args.conversationState # Null
  /\ Len(args.conversationState.context.messages) > 1
  /\ Len(ConversationDigest(args.conversationState, args.now)) = 2001
  /\ Len(result.returned) = 2047
  /\ EndsWith(result.returned, "[Memory truncated to prevent context overflow]")

\* a digest was returned for a log of two messages or more
DigestReturned ==
  /\ result # Pending
  /\ args.fn = "buildConversationHistoryPrompt"
  /\ args.conversationState # Null
  /\ Len(args.conversationState.context.messages) > 1

\* each user message of the log with the assistant message right after it,
\* if there is one, in the order of the log
FollowingPairs(messages) ==
  LET users == SelectSeq([i \in 1..Len(messages) |-> i],
                         LAMBDA i : messages[i].role = "user")
  IN [k \in 1..Len(users) |->
        Interaction(messages[users[k]],
                    IF users[k] < Len(messages)
                       /\ messages[users[k] + 1].role = "assistant"
                    THEN Some(messages[users[k] + 1])
                    ELSE Null)]

\* C17: the recent interactions of the digest are the last five of the
\* pairs made of a user message and the assistant message that follows it
\* immediately (no assistant side for a user message that none follows), in
\* the order of the log; a digest that is not cut holds their sections
C17_UserPairedWithFollowingAssistant ==
  DigestReturned =>
    LET messages == args.conversationState.context.messages
        expected == SliceLast(FollowingPairs(messages), 5)
    IN /\ GetRecentInteractions(messages, 5) = expected
       /\ (expected # <<>>
             /\ Len(ConversationDigest(args.conversationState, args.now))
                  <= MemoryLimit)
            => StringIncludes(result.returned,
                              Join(<<"\n### Recent Conversation:">>
                                   \o RecentSections(expected, 0, args.now),
                                   "\n"))

\* line is a whole line of text
HasLine(text, line) ==
  StringIncludes("\n" \o text \o "\n", "\n" \o line \o "\n")

\* the roll-up of a list as the claim has it: the last five entries, and
\* "(+K more)" when K > 0 entries are left out
CappedRollUp(label, list) ==
  label \o Join(SubSeq(list, Max(1, Len(list) - 4), Len(list)), ", ")
  \o (IF Len(list) > 5 THEN " (+" \o ToString(Len(list) - 5) \o " more)"
      ELSE "")

\* C18: in a digest that is not cut, each of the four lists of the session
\* summary that has an entry is shown by one line holding its last five
\* entries, followed by "(+K more)" exactly when the list has 5 + K > 5
\* entries
C18_RollUpsCappedAtFive ==
  (DigestReturned /\ args.conversationState.context.sessionSummary # Null
     /\ Len(ConversationDigest(args.conversationState, args.now)) <= MemoryLimit) =>
    LET summary == args.conversationState.context.sessionSummary
        shown(label, list) ==
          list # <<>> => HasLine(result.returned, CappedRollUp(label, list))
    IN /\ shown("**Created files:** ", summary.filesCreated)
       /\ shown("**Modified files:** ", summary.filesModified)
       /\ shown("**Components created:** ", summary.componentsCreated)
       /\ shown("**Packages added:** ", summary.packagesAdded)

(***************************************************************************)
(* Edit mode of the generate route (route.ts 85-119, 185-196): the request *)
(* is drawn in the initial state and followed through its asynchronous     *)
(* block, one action per await or branch.  `post' holds the locals:        *)
(*   pc                    the statement the request stands before         *)
(*   editContext           Null or a FileContext                           *)
(*   enhancedSystemPrompt, intentResponse, searchPlan, searchExecution,    *)
(*   target, fullPrompt    as in the code (Null: not assigned yet)         *)
(*   classifier            history: how the classifier call went           *)
(*   analyzed              history: what analyzeEditIntent returned        *)
(***************************************************************************)
\* formatSearchResultsForAI (file-search-executor): a line per result
FormatSearchResultsForAI(results) ==
  Join([i \in 1..Len(results) |->
          results[i].filePath \o ":" \o ToString(results[i].lineNumber)
          \o " " \o results[i].lineContent], "\n")

\* a FileInfo of the sandbox manifest
SandboxFile(kind, content, imports, componentName, childComponents) ==
  [ type |-> kind, content |-> content, imports |-> imports,
    componentInfo |-> IF componentName = "" THEN Null
                      ELSE [name |-> componentName,
                            childComponents |-> childComponents] ]

AppContent ==
  "import Header from './components/Header'\nexport default function App() {\n  return <Header />\n}"
HeaderContent ==
  "export default function Header() {\n  return <header className=\"bg-white\">Welcome</header>\n}"
HeroContent ==
  "export default function Hero() {\n  return <header className=\"bg-white\">Hello</header>\n}"
StyleContent == "@tailwind base;"

\* global.sandboxState.fileCache.manifest
SandboxManifest ==
  [ keys |-> <<"/home/user/app/src/App.jsx",
               "/home/user/app/src/components/Header.jsx",
               "/home/user/app/src/components/Hero.jsx",
               "/home/user/app/src/index.css">>,
    files |->
      ("/home/user/app/src/App.jsx" :>
         SandboxFile("component", AppContent,
                     <<Import("./components/Header", TRUE)>>, "App",
                     <<"Header">>))
      @@ ("/home/user/app/src/components/Header.jsx" :>
            SandboxFile("component", HeaderContent, <<>>, "Header", <<>>))
      @@ ("/home/user/app/src/components/Hero.jsx" :>
            SandboxFile("component", HeroContent, <<>>, "Hero", <<>>))
      @@ ("/home/user/app/src/index.css" :>
            SandboxFile("style", StyleContent, <<>>, "", <<>>)),
    componentTree |->
      ("App" :> TreeNode("/home/user/app/src/App.jsx", <<"Header">>, <<>>))
      @@ ("Header" :> TreeNode("/home/user/app/src/components/Header.jsx",
                               <<>>, <<"App">>)),
    entryPoint |-> "/home/user/app/src/main.jsx",
    routes |-> <<>> ]

\* global.sandboxState.fileCache.files, in Object.entries order
SandboxFiles ==
  << [path |-> "src/components/Hero.jsx", content |-> HeroContent],
     [path |-> "src/App.jsx", content |-> AppContent],
     [path |-> "/home/user/app/src/components/Header.jsx",
      content |-> HeaderContent],
     [path |-> "src/index.css", content |-> StyleContent] >>

\* the search plans the classifier may answer with
SearchPlan(editType, searchTerms, regexPatterns, fallbackSearch) ==
  [ editType |-> editType, reasoning |-> "locate the element",
    searchTerms |-> searchTerms, regexPatterns |-> regexPatterns,
    fileTypesToSearch |-> <<".jsx", ".tsx">>,
    fallbackSearch |-> fallbackSearch ]

SearchPlans ==
  { SearchPlan("UPDATE_STYLE", <<"bg-white">>, <<>>, Null),
    SearchPlan("UPDATE_COMPONENT", <<"Welcome">>, <<>>, Null),
    SearchPlan("FIX_ISSUE", <<"sidebar">>, <<>>,
               [terms |-> <<"header">>, patterns |-> <<>>]),
    SearchPlan("REMOVE_ELEMENT", <<"sidebar">>, <<>>, Null),
    SearchPlan("UPDATE_STYLE", <<>>, <<>>, Null),
    SearchPlan("ADD_FEATURE", <<"Header">>, <<>>, Null),
    SearchPlan("REFACTOR", <<>>, << <<"return", "Header">> >>, Null) }

\* what the classifier answers: a status that is not OK, a body that is not
\* JSON, a body without searchPlan, a body with one
IntentResponses ==
  { [ok |-> FALSE, status |-> s, body |-> Null] : s \in {400, 500} }
  \cup { [ok |-> TRUE, status |-> 200, body |-> [malformed |-> TRUE]],
         [ok |-> TRUE, status |-> 200, body |-> [searchPlan |-> Null]] }
  \cup { [ok |-> TRUE, status |-> 200, body |-> [searchPlan |-> plan]] :
         plan \in SearchPlans }

\* what analyzeEditIntent (edit-intent-analyzer) may return for the manifest
EditIntent(type, targetFiles) ==
  [ type |-> type, description |-> "Update the header", confidence |-> 80,
    targetFiles |-> targetFiles, searchTerms |-> <<>> ]

AnalyzedIntents(manifest) ==
  { EditIntent("UPDATE_COMPONENT", <<manifest.keys[2]>>),
    EditIntent("FULL_REBUILD", <<>>),
    EditIntent("ADD_FEATURE", <<manifest.keys[1], manifest.keys[2]>>) }

EditRequests ==
  { [ fn |-> "POST", prompt |-> prompt, isEdit |-> isEdit,
      manifest |-> cache.manifest, files |-> cache.files ] :
    prompt \in {"make the header blue", "fix the sidebar"},
    isEdit \in BOOLEAN,
    cache \in { [manifest |-> Null, files |-> <<>>],
                [manifest |-> Null, files |-> SandboxFiles],
                [manifest |-> SandboxManifest, files |-> SandboxFiles] } }

EditInit ==
  /\ MemoryAtRest
  /\ args \in EditRequests
  /\ result = Pending

editVars == <<conversationState, now, inFlight, warm, calls, aiCalls,
              lastPushed, ticks, overlapped, failed, pairs, args>>

IsEditRequest == args # Null /\ args.fn = "POST"

At(pc) == IsEditRequest /\ post # Null /\ post.pc = pc

\* lines 86-95: the locals are declared; edit mode needs a manifest
EnterEditMode ==
  /\ IsEditRequest /\ post = Null /\ result = Pending
  /\ post' = [ pc |-> IF ~args.isEdit THEN "prompt"
                      ELSE IF args.manifest = Null THEN "merge"
                      ELSE "fetch",
               editContext |-> Null, enhancedSystemPrompt |-> "",
               intentResponse |-> Null, searchPlan |-> Null,
               searchExecution |-> Null, target |-> Null,
               fullPrompt |-> Null, classifier |-> "none",
               analyzed |-> Null ]
  /\ UNCHANGED <<editVars, result>>

\* line 98: fetch rejects (the classifier cannot be reached)
FetchThrows ==
  /\ At("fetch")
  /\ post' = [post EXCEPT !.pc = "catch", !.classifier = "threw"]
  /\ UNCHANGED <<editVars, result>>

\* lines 98-99: the classifier answers; a status that is not OK skips the
\* whole search
FetchResponds ==
  /\ At("fetch")
  /\ \E response \in IntentResponses :
       post' = [post EXCEPT !.intentResponse = response,
                            !.pc = IF response.ok THEN "json" ELSE "merge",
                            !.classifier = IF response.ok THEN "ok" ELSE "notOk"]
  /\ UNCHANGED <<editVars, result>>

\* line 100: intentResponse.json() rejects for a body that is not JSON
JsonThrows ==
  /\ At("json")
  /\ post.intentResponse.body = [malformed |-> TRUE]
  /\ post' = [post EXCEPT !.pc = "catch", !.classifier = "malformed"]
  /\ UNCHANGED <<editVars, result>>

\* line 100: the search plan is taken from the body
ReadSearchPlan ==
  /\ At("json")
  /\ post.intentResponse.body # [malformed |-> TRUE]
  /\ post' = [post EXCEPT !.searchPlan = post.intentResponse.body.searchPlan,
                          !.pc = "search",
                          !.classifier =
                            IF post.intentResponse.body.searchPlan = Null
                            THEN "noPlan" ELSE "plan"]
  /\ UNCHANGED <<editVars, result>>

\* the fileContents argument of line 101
SearchedFiles(files) ==
  [i \in 1..Len(files) |->
     [path |-> IF StartsWith(files[i].path, "/") THEN files[i].path
               ELSE "/home/user/app/" \o files[i].path,
      content |-> files[i].content]]

\* lines 101-102 for a plan; without a result the search is over
ExecuteSearch ==
  /\ At("search")
  /\ post.searchPlan # Null
  /\ LET searchExecution ==
           ExecuteSearchPlan(post.searchPlan, SearchedFiles(args.files))
     IN post' = [post EXCEPT
                   !.searchExecution = searchExecution,
                   !.pc = IF searchExecution.success
                             /\ Len(searchExecution.results) > 0
                          THEN "select" ELSE "merge"]
  /\ UNCHANGED <<editVars, result>>

\* line 101 for a body without searchPlan: executeSearchPlan(undefined, ..)
\* either throws or finds nothing
ExecuteSearchWithoutPlan ==
  /\ At("search")
  /\ post.searchPlan = Null
  /\ \/ post' = [post EXCEPT !.pc = "catch"]
     \/ post' = [post EXCEPT !.searchExecution = [success |-> TRUE,
                                                  results |-> <<>>],
                             !.pc = "merge"]
  /\ UNCHANGED <<editVars, result>>

\* lines 106-107: the edit context of a surgical target
SurgicalContext(target, results, searchPlan, prompt) ==
  LET systemPrompt ==
        FormatSearchResultsForAI(results)
        \o "\n\nSURGICAL EDIT INSTRUCTIONS:\n- File: " \o target.filePath
        \o "\n- Line: " \o ToString(target.lineNumber)
        \o "\n- Reason: " \o target.reason
        \o "\n\nMake ONLY the change requested.\nUser request: \""
        \o prompt \o "\""
  IN [ primaryFiles |-> <<target.filePath>>,
       contextFiles |-> <<>>,
       systemPrompt |-> systemPrompt,
       editIntent |-> [ type |-> searchPlan.editType,
                        description |-> searchPlan.reasoning,
                        targetFiles |-> <<target.filePath>>,
                        confidence |-> 95,
                        searchTerms |-> searchPlan.searchTerms ] ]

\* lines 103-108: a target, when one is selected, makes the edit context
SelectTarget ==
  /\ At("select")
  /\ LET target == SelectTargetFile(post.searchExecution.results,
                                    post.searchPlan.editType)
         context == SurgicalContext(target.value, post.searchExecution.results,
                                    post.searchPlan, args.prompt)
     IN post' = IF target = Null
                THEN [post EXCEPT !.pc = "merge"]
                ELSE [post EXCEPT !.target = target.value,
                                  !.enhancedSystemPrompt = context.systemPrompt,
                                  !.editContext = context,
                                  !.pc = "merge"]
  /\ UNCHANGED <<editVars, result>>

\* lines 111-114: whatever was thrown is caught and the coarse selection
\* takes over
CatchAgenticSearch ==
  /\ At("catch")
  /\ \E editIntent \in AnalyzedIntents(args.manifest) :
       post' = [post EXCEPT
                  !.analyzed = editIntent,
                  !.editContext =
                    SelectFilesForEdit(args.prompt, args.manifest, editIntent),
                  !.pc = "merge"]
  /\ UNCHANGED <<editVars, result>>

\* lines 116-118
UseContextPrompt ==
  /\ At("merge")
  /\ post' = [post EXCEPT
                !.enhancedSystemPrompt =
                  IF post.editContext # Null
                     /\ post.editContext.systemPrompt # ""
                  THEN post.editContext.systemPrompt ELSE @,
                !.pc = "prompt"]
  /\ UNCHANGED <<editVars, result>>

\* line 193: every cached file in full
AllFilesContent(backendFiles) ==
  Join([i \in 1..Len(backendFiles) |->
          "<file path=\"" \o backendFiles[i].path \o "\">\n"
          \o backendFiles[i].content \o "\n</file>"], "\n")

\* mutant: without primary files the prompt goes out without any context
FullPromptWithoutContext(prompt, backendFiles, editContext, manifest) ==
  IF Len(backendFiles) = 0 THEN prompt
  ELSE IF editContext # Null /\ Len(editContext.primaryFiles) > 0
  THEN "CONTEXT:\n"
       \o FormatFilesForAI(GetFileContents(editContext.primaryFiles, manifest),
                           GetFileContents(editContext.contextFiles, manifest))
       \o "\n\nUSER REQUEST:\n" \o prompt
  ELSE prompt

\* lines 185-196
FullPrompt(prompt, backendFiles, editContext, manifest) ==
  IF Len(backendFiles) = 0 THEN prompt
  ELSE IF editContext # Null /\ Len(editContext.primaryFiles) > 0
  THEN "CONTEXT:\n"
       \o FormatFilesForAI(GetFileContents(editContext.primaryFiles, manifest),
                           GetFileContents(editContext.contextFiles, manifest))
       \o "\n\nUSER REQUEST:\n" \o prompt
  ELSE "CONTEXT:\n" \o AllFilesContent(backendFiles)
       \o "\n\nUSER REQUEST:\n" \o prompt

\* lines 185-198: the prompt for the model is complete
BuildFullPrompt ==
  /\ At("prompt")
  /\ LET fullPrompt == FullPrompt(args.prompt, args.files, post.editContext,
                                  args.manifest)
     IN /\ post' = [post EXCEPT !.fullPrompt = fullPrompt, !.pc = "generate"]
        /\ result' = Returned(fullPrompt)
  /\ UNCHANGED editVars

EditNext ==
  \/ EnterEditMode
  \/ FetchThrows
  \/ FetchResponds
  \/ JsonThrows
  \/ ReadSearchPlan
  \/ ExecuteSearch
  \/ ExecuteSearchWithoutPlan
  \/ SelectTarget
  \/ CatchAgenticSearch
  \/ UseContextPrompt
  \/ BuildFullPrompt

SpecEdit == EditInit /\ [][EditNext]_vars

(***************************************************************************)
(* Properties of the edit mode.                                            *)
(***************************************************************************)
\* the request has left the edit-mode block
PastEditMode == IsEditRequest /\ post # Null /\ post.pc \in {"prompt", "generate"}

\* the edit contexts the coarse path can produce for the request
CoarseContexts ==
  { SelectFilesForEdit(args.prompt, args.manifest, editIntent) :
    editIntent \in AnalyzedIntents(args.manifest) }

\* C12: in edit mode, when the classifier call threw, answered with a status
\* that is not OK, or answered without a usable search plan, the edit
\* context of the request is the one selectFilesForEdit produces
C12_ClassifierFailureUsesCoarseContext ==
  (PastEditMode /\ post.classifier \in {"threw", "notOk", "malformed", "noPlan"})
    => post.editContext \in CoarseContexts

\* the search of the request ran to its end without throwing
SearchReturned == IsEditRequest /\ post # Null /\ post.searchExecution # Null

\* the prompt that carries every cached file
WholeManifestPrompt ==
  "CONTEXT:\n" \o AllFilesContent(args.files) \o "\n\nUSER REQUEST:\n"
  \o args.prompt

\* C13: when the search returned without a result, or selectTargetFile
\* returned absent, the request goes on without a surgical target and without
\* an edit context, and its prompt carries every cached file; when a target
\* was returned, the edit context has the target's file as its only primary
\* file and no context file
C13_AbsentTargetFallsBackToAllFiles ==
  (SearchReturned /\ post.pc = "generate") =>
    LET results == post.searchExecution.results
        target == IF results = <<>> THEN Null
                  ELSE SelectTargetFile(results, post.searchPlan.editType)
    IN IF target = Null
       THEN /\ post.target = Null
            /\ post.editContext = Null
            /\ post.enhancedSystemPrompt = ""
            /\ result = Returned(WholeManifestPrompt)
       ELSE /\ post.target = target.value
            /\ post.editContext.primaryFiles = <<target.value.filePath>>
            /\ post.editContext.contextFiles = <<>>
            /\ post.editContext.editIntent.targetFiles = <<target.value.filePath>>

\* C13 witness: the search for "sidebar" found nothing in the cached files,
\* and the prompt of the request carries all of them
C13_Witness ==
  /\ SearchReturned
  /\ post.pc = "generate"
  /\ post.searchPlan # Null
  /\ post.searchPlan.searchTerms = <<"sidebar">>
  /\ post.searchPlan.fallbackSearch = Null
  /\ post.searchExecution.results = <<>>
  /\ post.editContext = Null
  /\ Len(args.files) = 4
  /\ StringIncludes(result.returned, "<file path=\"src/index.css\">")

(***************************************************************************)
(* Specification of selectTargetFile: the results and the category are     *)
(* drawn in the initial state, the action makes the call.                  *)
(***************************************************************************)
\* results with ties in the score, in score and line, and in all three
TargetCandidates ==
  { SearchResult("/A.jsx", 1, "<div className=\"bg-white\">", "bg-white", 50),
    SearchResult("/A.jsx", 1, "<div className=\"bg-white\">", "white", 50),
    SearchResult("/A.jsx", 2, "bg-white", "bg-white", 100),
    SearchResult("/B.jsx", 2, "bg-white", "bg-white", 100),
    SearchResult("/B.jsx", 1, "bg-white", "bg-white", 100) }

TargetInputs ==
  { [ fn |-> "selectTargetFile", results |-> results, editType |-> editType ] :
    results \in SeqsUpTo(TargetCandidates, MaxResults),
    editType \in {"UPDATE_STYLE", "REMOVE_ELEMENT", "ADD_FEATURE"} }

TargetInit ==
  /\ MemoryAtRest
  /\ args \in TargetInputs
  /\ result = Pending

CallSelectTargetFile ==
  /\ result = Pending
  /\ result' = Returned(SelectTargetFile(args.results, args.editType))
  /\ UNCHANGED <<args, memVars>>

TargetNext == CallSelectTargetFile

SpecTarget == TargetInit /\ [][TargetNext]_vars

\* the same results in another order
Reordered(results) ==
  { [i \in 1..Len(results) |-> results[order[i]]] :
    order \in { f \in [1..Len(results) -> 1..Len(results)] :
                 \A i, j \in 1..Len(results) : f[i] = f[j] => i = j } }

\* the place a result points at, with its score
PlaceOf(r) == <<r.filePath, r.lineNumber, r.score>>

\* C14: for a single-point category selectTargetFile returns absent for an
\* empty list; otherwise it returns one of the results, no result has a
\* higher score, none of the same score an earlier line, none of the same
\* score and line a path that comes first in lexical order, and every
\* reordering of the results selects the same place
C14_BestTargetWhateverTheOrder ==
  (result # Pending /\ args.fn = "selectTargetFile"
     /\ args.editType \in {"UPDATE_STYLE", "FIX_ISSUE", "UPDATE_COMPONENT",
                           "REMOVE_ELEMENT"}) =>
    IF args.results = <<>> THEN result.returned = Null
    ELSE /\ result.returned # Null
         /\ LET best == result.returned.value
            IN /\ Includes(args.results, best)
               /\ \A i \in 1..Len(args.results) :
                    LET r == args.results[i]
                    IN /\ r.score <= best.score
                       /\ r.score = best.score => best.lineNumber <= r.lineNumber
                       /\ (r.score = best.score /\ r.lineNumber = best.lineNumber)
                            => ~StringLess(r.filePath, best.filePath)
               /\ \A other \in Reordered(args.results) :
                    PlaceOf(SelectTargetFile(other, args.editType).value)
                      = PlaceOf(best)

\* C14 witness: of two results of score 100 on line 2, supplied with B.jsx
\* first, the one in A.jsx is selected
C14_Witness ==
  /\ args # Null /\ args.fn = "selectTargetFile"
  /\ args.editType = "UPDATE_STYLE"
  /\ Len(args.results) = 3
  /\ PlaceOf(args.results[1]) = <<"/B.jsx", 2, 100>>
  /\ PlaceOf(args.results[2]) = <<"/A.jsx", 1, 50>>
  /\ PlaceOf(args.results[3]) = <<"/A.jsx", 2, 100>>
  /\ result # Pending /\ result.returned # Null
  /\ PlaceOf(result.returned.value) = <<"/A.jsx", 2, 100>>

(***************************************************************************)
(* Specification of executeSearchPlan: the plan and the file contents are  *)
(* drawn in the initial state, the action makes the call.                  *)
(***************************************************************************)
FallbackChoices ==
  { Null,
    [terms |-> <<"header">>, patterns |-> <<>>],
    [terms |-> <<>>, patterns |-> << <<"return", "Hello">> >>],
    [terms |-> <<"footer">>, patterns |-> <<>>] }

SearchInputs ==
  { [ fn |-> "executeSearchPlan",
      searchPlan |-> [ editType |-> "UPDATE_STYLE", reasoning |-> "",
                       searchTerms |-> searchTerms,
                       regexPatterns |-> regexPatterns,
                       fileTypesToSearch |-> fileTypes,
                       fallbackSearch |-> fallbackSearch ],
      fileContents |-> fileContents ] :
    searchTerms \in {<<>>, <<"bg-white">>, <<"sidebar">>, <<"sidebar", "welcome">>},
    regexPatterns \in {<<>>, << <<"className", "white">> >>},
    fileTypes \in {<<".jsx", ".tsx">>, <<".css">>},
    fallbackSearch \in FallbackChoices,
    fileContents \in {<<>>, SearchedFiles(SandboxFiles)} }

SearchInit ==
  /\ MemoryAtRest
  /\ args \in SearchInputs
  /\ result = Pending

CallExecuteSearchPlan ==
  /\ result = Pending
  /\ result' = Returned(ExecuteSearchPlan(args.searchPlan, args.fileContents))
  /\ UNCHANGED <<args, memVars>>

SearchNext == CallExecuteSearchPlan

SpecSearch == SearchInit /\ [][SearchNext]_vars

\* what the terms and patterns match in the files of the plan's types
HitsOf(terms, patterns) ==
  SearchFiles(CandidateFiles(args.fileContents,
                             args.searchPlan.fileTypesToSearch),
              terms, patterns)

\* C15: executeSearchPlan succeeds for every plan; when the primary terms
\* and patterns match somewhere, exactly their results are returned; when
\* they match nowhere, the results are those of the fallback if there is one
\* and none otherwise, so that a plan without terms, patterns and fallback
\* returns success and an empty list
C15_FallbackOnlyAfterEmptyPrimary ==
  (result # Pending /\ args.fn = "executeSearchPlan") =>
    LET plan == args.searchPlan
        primary == HitsOf(plan.searchTerms, plan.regexPatterns)
    IN /\ result.returned.success = TRUE
       /\ primary # <<>> => result.returned.results = primary
       /\ (primary = <<>> /\ plan.fallbackSearch = Null)
            => result.returned.results = <<>>
       /\ (primary = <<>> /\ plan.fallbackSearch # Null)
            => result.returned.results
                 = HitsOf(plan.fallbackSearch.terms, plan.fallbackSearch.patterns)

\* C15 witness: "bg-white" is found, and the fallback term "header", which
\* is in the files as well, contributes no result
C15_Witness ==
  /\ args # Null /\ args.fn = "executeSearchPlan"
  /\ args.searchPlan.searchTerms = <<"bg-white">>
  /\ args.searchPlan.regexPatterns = <<>>
  /\ args.searchPlan.fallbackSearch # Null
  /\ args.searchPlan.fallbackSearch.terms = <<"header">>
  /\ HitsOf(<<"header">>, <<>>) # <<>>
  /\ result # Pending
  /\ Len(result.returned.results) = 2
  /\ \A i \in 1..2 : result.returned.results[i].matched = "bg-white"

(***************************************************************************)
(* Specification of buildSystemPrompt and buildEditInstructions: the       *)
(* arguments are drawn in the initial state, the action makes the call.    *)
(***************************************************************************)
\* the categories of EditType, and strings that are none of them
EditTypes ==
  {"UPDATE_COMPONENT", "ADD_FEATURE", "FIX_ISSUE", "UPDATE_STYLE", "REFACTOR",
   "FULL_REBUILD", "ADD_DEPENDENCY", "REMOVE_ELEMENT"}

OtherCategories == {"", "update-component", "RENAME_FILE"}

\* the categories buildEditInstructions has an entry for
InstructionTable == EditTypes \ {"REMOVE_ELEMENT"}

PromptPrimaryChoices ==
  { <<>>,
    <<"/home/user/app/src/components/Header.jsx">>,
    <<"/home/user/app/src/App.jsx", "/home/user/app/src/index.css">>,
    <<"/home/user/app/src/Missing.jsx", "/home/user/app/src/components/Hero.jsx">> }

PromptInputs ==
  { [ fn |-> "buildEditInstructions", editType |-> editType ] :
    editType \in EditTypes \cup OtherCategories }
  \cup
  { [ fn |-> "buildSystemPrompt", userPrompt |-> userPrompt,
      editIntent |-> [EditIntent(editType, primaryFiles)
                        EXCEPT !.confidence = confidence],
      primaryFiles |-> primaryFiles,
      contextFiles |-> IF withContext
                       THEN BuildLocalContext(primaryFiles, SandboxManifest,
                                              SandboxManifest.keys)
                       ELSE <<>>,
      manifest |-> SandboxManifest ] :
    userPrompt \in {"make the header blue"},
    editType \in EditTypes \cup {"RENAME_FILE"},
    primaryFiles \in PromptPrimaryChoices,
    confidence \in {7, 95},
    withContext \in BOOLEAN }

PromptInit ==
  /\ MemoryAtRest
  /\ args \in PromptInputs
  /\ result = Pending

CallBuildEditInstructions ==
  /\ result = Pending
  /\ args.fn = "buildEditInstructions"
  /\ result' = Returned(BuildEditInstructions(args.editType))
  /\ UNCHANGED <<args, memVars>>

CallBuildSystemPrompt ==
  /\ result = Pending
  /\ args.fn = "buildSystemPrompt"
  /\ result' = Returned(BuildSystemPrompt(args.userPrompt, args.editIntent,
                                          args.primaryFiles, args.contextFiles,
                                          args.manifest))
  /\ UNCHANGED <<args, memVars>>

PromptNext == CallBuildEditInstructions \/ CallBuildSystemPrompt

SpecPrompt == PromptInit /\ [][PromptNext]_vars

\* the heading (first line) of each entry of the instruction table
InstructionHeading(editType) ==
  CASE editType = "UPDATE_COMPONENT" -> "## SURGICAL EDIT INSTRUCTIONS"
    [] editType = "UPDATE_STYLE" -> "## SURGICAL STYLE EDIT INSTRUCTIONS"
    [] OTHER -> "## Instructions"

\* the second line of each entry of the instruction table
InstructionOpening(editType) ==
  CASE editType = "UPDATE_COMPONENT" -> "- You MUST preserve 99% of the original code"
    [] editType = "ADD_FEATURE" -> "- Create new components in appropriate directories"
    [] editType = "FIX_ISSUE" -> "- Identify and fix the specific issue"
    [] editType = "UPDATE_STYLE" -> "- Change ONLY the specific style/class mentioned"
    [] editType = "REFACTOR" -> "- Improve code quality without changing functionality"
    [] editType = "FULL_REBUILD" -> "- You may rebuild the entire application"
    [] editType = "ADD_DEPENDENCY" -> "- Update package.json with new dependency"

IndexOf(s, piece) ==
  LET at == {i \in 0..(Len(s) - Len(piece)) :
               SubSeq(s, i + 1, i + Len(piece)) = piece}
  IN IF at = {} THEN -1 ELSE CHOOSE i \in at : \A j \in at : i <= j

\* C22: the text of buildSystemPrompt starts with the usage examples
\* exactly when the category is not FULL_REBUILD; then come, in this order,
\* the edit intent, the project files, the component patterns, the files to
\* edit (when there are primary files), the context files (when there are
\* any) and the instruction block of the category; the component
\* relationships follow as the last section exactly when the category is
\* UPDATE_COMPONENT or ADD_FEATURE, otherwise the instruction block is the
\* last section
C22_SectionsInFixedOrder ==
  (result # Pending /\ args.fn = "buildSystemPrompt") =>
    LET out == result.returned
        type == args.editIntent.type
        block == BuildEditInstructions(type)
        relationships ==
          BuildComponentRelationships(args.primaryFiles, args.manifest)
        at(heading) == IndexOf(out, heading)
        intent == at("## Edit Intent\nType: " \o type \o "\n")
        files == at("\n\n## @@ EXISTING PROJECT FILES")
        patterns == at("\n\n" \o ComponentPatternPrompt(""))
        toEdit == at("\n\n## Files to Edit\n")
        context == at("\n\n## Context Files (for reference only)\n")
        instructions == at("\n\n" \o block)
        related == at("\n\n## Component Relationships")
    IN /\ IF type # "FULL_REBUILD"
          THEN StartsWith(out, EditExamplesPrompt \o "\n\n") /\ intent = Len(EditExamplesPrompt) + 2
          ELSE intent = 0 /\ ~StringIncludes(out, EditExamplesPrompt)
       /\ intent < files /\ files < patterns /\ patterns < instructions
       /\ (toEdit # -1) = (args.primaryFiles # <<>>)
       /\ (context # -1) = (args.contextFiles # <<>>)
       /\ toEdit # -1 => patterns < toEdit /\ toEdit < instructions
       /\ context # -1 => patterns < context /\ context < instructions
       /\ (toEdit # -1 /\ context # -1) => toEdit < context
       /\ IF type \in {"UPDATE_COMPONENT", "ADD_FEATURE"}
          THEN EndsWith(out, "\n\n" \o block \o "\n\n" \o relationships)
          ELSE EndsWith(out, "\n\n" \o block) /\ related = -1

\* C22 witness: a prompt for ADD_FEATURE with primary and context files
\* ends with the relationships of App, one for FULL_REBUILD starts with the
\* edit intent
C22_Witness ==
  /\ args # Null /\ args.fn = "buildSystemPrompt"
  /\ result # Pending
  /\ args.editIntent.type = "ADD_FEATURE"
  /\ Len(args.primaryFiles) = 2 /\ args.contextFiles # <<>>
  /\ StartsWith(result.returned, "## Edit Examples\n\n## Edit Intent\nType: ADD_FEATURE")
  /\ StringIncludes(result.returned, "\n\n## Files to Edit\n- /home/user/app/src/App.jsx (App component)\n")
  /\ EndsWith(result.returned, "NewComponent />\n\n## Component Relationships\n\n### App\nImports: Header\nRenders: Header")

(***************************************************************************)
(* analyzeUserPreferences as a function of the log                         *)
(* (conversation-memory.ts 238-274).                                       *)
(***************************************************************************)
\* contents of messages: with and without the verbs of the two families,
\* with a verb inside a longer word, with capitals, with several patterns
PreferenceContents ==
  { "Fix the hero header", "Rebuild the button style",
    "refactor and change colors", "add an animation", "prefix it",
    "updated the header" }

PreferenceMessage(role, content) ==
  [ id |-> "m", role |-> role, content |-> content, timestamp |-> 0,
    metadata |-> NoMetadata ]

PreferenceMessages ==
  { PreferenceMessage(role, content) :
      role \in {"user", "assistant"}, content \in PreferenceContents }

PreferenceInputs ==
  { [ messages |-> messages ] :
      messages \in UNION { [1..n -> PreferenceMessages] : n \in 0..MaxMessages } }

PreferenceInit ==
  /\ MemoryAtRest
  /\ args \in PreferenceInputs
  /\ result = Pending

CallAnalyzeUserPreferences ==
  /\ result = Pending
  /\ result' = Returned(AnalyzeUserPreferences(args.messages))
  /\ UNCHANGED <<args, memVars>>

PreferenceNext == CallAnalyzeUserPreferences

SpecPreferences == PreferenceInit /\ [][PreferenceNext]_vars

\* the contents that ask for a targeted edit, read by hand
TargetedRequests == {"Fix the hero header", "refactor and change colors"}
\* the contents that ask for a comprehensive edit, read by hand
ComprehensiveRequests ==
  {"Rebuild the button style", "refactor and change colors"}
\* the request patterns of each content, read by hand
PatternsRequested(content) ==
  CASE content = "Fix the hero header" ->
         {"hero section edits", "header modifications"}
    [] content = "Rebuild the button style" ->
         {"styling changes", "button updates"}
    [] content = "refactor and change colors" -> {"styling changes"}
    [] content = "add an animation" -> {"animation requests"}
    [] content = "updated the header" -> {"header modifications"}
    [] OTHER -> {}

\* C23: the edit style returned by analyzeUserPreferences is 'targeted'
\* exactly when more user messages ask for a targeted edit than for a
\* comprehensive one, and 'comprehensive' otherwise (a tie and no match
\* included); messages of the assistant count for nothing; at most three
\* patterns are reported, all different, each one requested by a user
\* message
C23_EditStyleIsMajorityOfUserMessages ==
  result # Pending =>
    LET log == args.messages
        users == {i \in 1..Len(log) : log[i].role = "user"}
        targeted == Cardinality({i \in users : log[i].content \in TargetedRequests})
        comprehensive ==
          Cardinality({i \in users : log[i].content \in ComprehensiveRequests})
        requested == UNION {PatternsRequested(log[i].content) : i \in users}
        reported == result.returned.commonPatterns
    IN /\ result.returned.preferredEditStyle =
            (IF targeted > comprehensive THEN "targeted" ELSE "comprehensive")
       /\ Len(reported) = Min(3, Cardinality(requested))
       /\ \A i \in 1..Len(reported) : reported[i] \in requested
       /\ \A i, j \in 1..Len(reported) : reported[i] = reported[j] => i = j

\* C23 witness: one user message of each family and a targeted message of
\* the assistant give 'comprehensive', and three of the four patterns of the
\* two user messages
C23_Witness ==
  /\ args # Null
  /\ args = [ messages |->
                << PreferenceMessage("user", "Fix the hero header"),
                   PreferenceMessage("user", "Rebuild the button style"),
                   PreferenceMessage("assistant", "Fix the hero header") >> ]
  /\ result = Returned(
       [ commonPatterns |-> << "hero section edits", "header modifications",
                               "styling changes" >>,
         preferredEditStyle |-> "comprehensive" ])

====
